---- MODULE Spec2Model ----
(***************************************************************************)
(* Model of the RES construction pipeline of src/reslac.py                 *)
(* (EnergyMatrix.build_RES and the methods it calls).                      *)
(*                                                                         *)
(* Conventions.                                                            *)
(*  - Energies are integers in tenths of a petajoule (12.5 PJ is 125).     *)
(*  - Python's False, returned by the label resolvers for an unknown       *)
(*    label, is the string "False"; None is the string "None".             *)
(*  - Fuel objects live in a heap (a sequence of records); fuel lists hold *)
(*    heap addresses, so that two lists holding the same object share it   *)
(*    and a deep copy is a new address.                                    *)
(*  - A workbook is a sequence of sheets in the order pandas returns them; *)
(*    a sheet has the country of its key, the "Sectors" column, the column *)
(*    labels (the first one is "Sectors" itself) and the cells.            *)
(*  - Row, column and country labels are written without their accents   *)
(*    ("PETROLEO" for the label with an accented O); no two labels of the  *)
(*    tables coincide once written so.                                     *)
(*  - list(set) has no order the program controls: it is SetToList under   *)
(*    the hash seed of the run.                                            *)
(***************************************************************************)
EXTENDS Integers, Sequences, FiniteSets, TLC

VARIABLES
    res,        \* self.res: the capacities (indicator) workbook read by read_base
    matrix,     \* self.matrix: the balance workbook read by read_data
    heap,       \* every Fuel object created so far
    techs,      \* self.techs: valued technologies
    fuels,      \* self.fuels: addresses of the valued fuels
    labels,     \* self.labels
    _techs,     \* self._techs: skeleton technologies
    _fuels,     \* self._fuels: addresses of the skeleton fuels
    pc,         \* the next call of build_RES, "done" or "fault"
    err,        \* the exception that ended the run
    calls,      \* reducer calls made after build_RES returned
    hashseed,   \* the string hash seed of the process
    left,       \* the left operand of a direct call, or the label resolved
    right,      \* the right operand of that call, or the resolver called
    ret,        \* what the call returned
    ipc,        \* steps initital_RES has made when called as a thread
    dpc,        \* steps data_RES has made when called as a thread
    made        \* calls of the builder methods made one after another

\* the variables of a comparison made directly, which build_RES leaves alone
operands == <<left, right, ret>>

\* the positions of the two builders run as threads, which build_RES and
\* the comparisons leave alone
threads == <<ipc, dpc>>

vars == <<res, matrix, heap, techs, fuels, labels, _techs, _fuels,
          pc, err, calls, hashseed, operands, threads, made>>

-----------------------------------------------------------------------------
(* Bounds                                                                  *)

\* calls of the public reducer methods after build_RES has returned
MaxRecalls == 1

\* calls of initital_RES, data_RES and build_RES made one after another on
\* one instance
MaxCalls == 2

\* the orders list(set) may produce: TLC's enumeration order and its reverse
HashSeeds == {0, 1}

\* no call made yet
NoCalls == [initital_RES |-> 0, data_RES |-> 0, build_RES |-> 0]

-----------------------------------------------------------------------------
(* Label resolvers                                                         *)

NotRecognized == "False"

In(dict, key) == \E p \in dict : p[1] = key

Get(dict, key) == (CHOOSE p \in dict : p[1] = key)[2]

region_table ==
    { <<"Argentina", "ARG">>, <<"Barbados", "BRB">>, <<"Belice", "BLZ">>,
      <<"Bolivia", "BOL">>, <<"Brasil", "BRA">>, <<"Chile", "CHL">>,
      <<"Colombia", "COL">>, <<"Costa Rica", "CRI">>, <<"Cuba", "CUB">>,
      <<"Ecuador", "ECU">>, <<"El Salvador", "SLV">>, <<"Grenada", "GRD">>,
      <<"Guatemala", "GTM">>, <<"Guyana", "GUY">>, <<"Haiti", "HTI">>,
      <<"Honduras", "HND">>, <<"Jamaica", "JAM">>, <<"Mexico", "MEX">>,
      <<"Nicaragua", "NIC">>, <<"Panama", "PAN">>, <<"Paraguay", "PRY">>,
      <<"Peru", "PER">>, <<"Republica Dominicana", "DOM">>,
      <<"Suriname", "SUR">>, <<"Trinidad & Tobago", "TTO">>,
      <<"Uruguay", "URY">>, <<"Venezuela", "VEN">> }

set_region(country) ==
    IF In(region_table, country) THEN Get(region_table, country)
    ELSE NotRecognized

prim_fuel_labels ==
    { <<"Sector", "FUE001">>, <<"PETROLEO", "CRU">>, <<"GAS NATURAL", "NGS">>,
      <<"CARBON MINERAL", "COA001">>, <<"HIDROENERGIA", "HYD">>,
      <<"GEOTERMIA", "GEO">>, <<"NUCLEAR", "NUC">>, <<"LENA", "WOO">>,
      <<"CANA DE AZUCAR Y DERIVADOS", "SGC">>, <<"OTRAS PRIMARIAS", "OPR">> }

sec_fuel_labels ==
    { <<"Sector", "FUE002">>, <<"GAS LICUADO DE PETROLEO", "LPG">>,
      <<"GASOLINA/ALCOHOL", "GSL">>, <<"KEROSENE/JET FUEL", "KER">>,
      <<"DIESEL OIL", "DSL">>, <<"FUEL OIL", "HFO">>, <<"COQUE", "COK">>,
      <<"CARBON VEGETAL", "COA002">>, <<"GASES", "GAS">>,
      <<"OTRAS SECUNDARIAS", "OSE">>, <<"NO ENERGETICO", "NEN">> }

third_fuel_labels ==
    { <<"Sector", "FUE003">>, <<"ELECTRICIDAD", "ELC">> }

commodities == <<prim_fuel_labels, sec_fuel_labels, third_fuel_labels>>

\* the first table of tables that has the name gives (table["Sector"], table[name])
RECURSIVE FirstTable(_, _, _, _)
FirstTable(tables, head, name, k) ==
    IF k > Len(tables) THEN <<>>
    ELSE IF In(tables[k], name)
         THEN <<Get(tables[k], head), Get(tables[k], name)>>
         ELSE FirstTable(tables, head, name, k + 1)

\* set_fuel_labels with the column of totals taken for a primary commodity
set_fuel_labels_Total(name) ==
    IF name = "TOTAL" THEN <<"FUE001", "TOT">>
    ELSE FirstTable(commodities, "Sector", name, 1)

\* <<>> stands for the False the function returns
set_fuel_labels(name) == FirstTable(commodities, "Sector", name, 1)

supply ==
    { <<"Category", "SUP">>, <<"PRODUCCION", "PRO">>,
      <<"IMPORTACION", "IMP">>, <<"EXPORTACION", "EXP">> }

sec_tech ==
    { <<"Category", "UPS001">>, <<"REFINERIAS", "REF">>,
      <<"CENTROS DE GAS", "GAS">>, <<"CARBONERA", "CHL">>,
      <<"DESTILERIA", "DET">> }

third_tech ==
    { <<"Category", "UPS002">>, <<"COQUERIA Y ALTOS HORNOS", "BOI">>,
      <<"OTROS CENTROS", "UPSTEC">> }

fourth_tech ==
    { <<"Category", "UPS003">>, <<"CENTRALES ELECTRICAS", "PWR">>,
      <<"AUTOPRODUCTORES", "SEL">> }

demand ==
    { <<"Category", "DEM">>, <<"TRANSPORTE", "TRA">>, <<"INDUSTRIAL", "IND">>,
      <<"RESIDENCIAL", "RES">>, <<"COMERCIAL, SERVICIOS, PUBLICO", "COM">>,
      <<"AGRO, PESCA Y MINERIA", "AGR">>, <<"CONSTRUCCION Y OTROS", "CON">>,
      <<"CONSUMO NO ENERGETICO", "NEE">> }

loss_tech01 ==
    { <<"Category", "LOS001">>, <<"VARIACION DE INVENTARIOS", "INV">>,
      <<"NO APROVECHADO", "WAS">> }

loss_tech02 ==
    { <<"Category", "LOS002">>, <<"PERDIDAS", "LOS">>,
      <<"CONSUMO PROPIO", "OWN">> }

categories == <<supply, sec_tech, third_tech, fourth_tech, demand,
                loss_tech01, loss_tech02>>

\* <<>> stands for the False the function returns
set_technology_labels(name) == FirstTable(categories, "Category", name, 1)


-----------------------------------------------------------------------------
(* Sequences, sets and the order of list(set)                              *)

Range(s) == { s[k] : k \in DOMAIN s }

RECURSIVE Concat(_)
Concat(ss) == IF ss = <<>> THEN <<>> ELSE Head(ss) \o Concat(Tail(ss))

Reverse(s) == [k \in 1..Len(s) |-> s[Len(s) + 1 - k]]

RECURSIVE Enum(_)
Enum(S) ==
    IF S = {} THEN <<>>
    ELSE LET x == CHOOSE y \in S : TRUE IN <<x>> \o Enum(S \ {x})

\* list(S) for a set S of strings or of tuples of strings
SetToList(S) == IF hashseed = 0 THEN Enum(S) ELSE Reverse(Enum(S))

\* the first of a set of positions of a list, 0 when there is none
First(positions) ==
    IF positions = {} THEN 0
    ELSE CHOOSE k \in positions : \A m \in positions : k <= m

RemoveAt(list, k) ==
    [m \in 1..(Len(list) - 1) |-> IF m < k THEN list[m] ELSE list[m + 1]]

-----------------------------------------------------------------------------
(* Technology and Fuel                                                     *)

NoError == [type |-> "None", at |-> "None", repr |-> <<>>]

Raise(type, at, repr) == [type |-> type, at |-> at, repr |-> repr]

\* Technology.__repr__ and Fuel.__repr__, as the tuple of the parts printed
TechRepr(T) == <<T.category, T.code, T.region>>

FuelRepr(f) == <<f.code, f.region>>

\* the subclass add_tech and add_itech instantiate for a category
TechClass(category) ==
    IF category \in {"SUP", "LOS001"} THEN "Primary_Tech"
    ELSE IF category \in {"UPS001", "UPS002", "UPS003"} THEN "Convertion_Tech"
    ELSE "Demand_Tech"

\* the subclass add_fuel and add_ifuel instantiate for a sector
FuelClass(sector) ==
    IF sector = "FUE001" THEN "Primary_Fuel"
    ELSE IF sector = "FUE002" THEN "Second_Fuel"
    ELSE "Third_Fuel"

Technology(code, region, category, in_fuels, out_fuels) ==
    [cls |-> TechClass(category), category |-> category, code |-> code,
     region |-> region, in_fuels |-> in_fuels, out_fuels |-> out_fuels]

Fuel(sector, code, energy, region) ==
    [cls |-> FuelClass(sector), code |-> code, region |-> region,
     energy_PJ |-> energy]

\* Technology.__eq__: equality of the two sets of features
Technology_eq(self, other) ==
    {self.cls, self.category, self.code, self.region}
        = {other.cls, other.category, other.code, other.region}

\* Fuel.__eq__ with the energy compared as well
Fuel_eq_WithEnergy(self, other) ==
    /\ {self.cls, self.code, self.region}
          = {other.cls, other.code, other.region}
    /\ self.energy_PJ = other.energy_PJ

\* Fuel.__eq__: equality of the two sets of features
Fuel_eq(self, other) ==
    {self.cls, self.code, self.region} = {other.cls, other.code, other.region}

\* list.index(f) on a list of fuel addresses, 0 for ValueError
FuelIndex(h, list, f) ==
    First({k \in DOMAIN list : list[k] = f \/ Fuel_eq(h[list[k]], h[f])})

\* list.index(T) on a list of technologies, 0 for ValueError
TechIndex(list, T) == First({k \in DOMAIN list : Technology_eq(list[k], T)})

\* New objects are given as entries: the fuel, the list of the technology it
\* is appended to, and whether it is appended to the list of all fuels.
Entry(fuel, to, listed) == [fuel |-> fuel, to |-> to, listed |-> listed]

\* Addresses with an output fuel that follows the input fuel of the same
\* identity being that same object instead of an object of its own
RECURSIVE AddressesShared(_, _, _, _)
AddressesShared(h, entries, to, k) ==
    IF k > Len(entries) THEN <<>>
    ELSE (IF entries[k].to # to THEN <<>>
          ELSE IF /\ to = "out"
                  /\ k > 1
                  /\ entries[k - 1].to = "in"
                  /\ entries[k - 1].fuel = entries[k].fuel
          THEN <<Len(h) + k - 1>>
          ELSE <<Len(h) + k>>)
         \o AddressesShared(h, entries, to, k + 1)

\* the addresses, in order, that the entries going to a list get on heap h
RECURSIVE Addresses(_, _, _, _)
Addresses(h, entries, to, k) ==
    IF k > Len(entries) THEN <<>>
    ELSE (IF entries[k].to = to THEN <<Len(h) + k>> ELSE <<>>)
         \o Addresses(h, entries, to, k + 1)

RECURSIVE Listed(_, _, _)
Listed(h, entries, k) ==
    IF k > Len(entries) THEN <<>>
    ELSE (IF entries[k].listed THEN <<Len(h) + k>> ELSE <<>>)
         \o Listed(h, entries, k + 1)

Allocate(h, entries) == h \o [k \in 1..Len(entries) |-> entries[k].fuel]

-----------------------------------------------------------------------------
(* Structure Builder                                                       *)

\* RowLabels without the test of the cell: a label for every recognized
\* column of a recognized row
RowLabelsAnyCell(matrix_df, region, n) ==
    LET techID == set_technology_labels(matrix_df.Sectors[n]) IN
    IF techID = <<>> THEN <<>>
    ELSE Concat([j \in 1..Len(matrix_df.columns) |->
            LET fuelID == set_fuel_labels(matrix_df.columns[j]) IN
            IF fuelID # <<>>
            THEN << <<techID[1], techID[2], fuelID[1], fuelID[2], region>> >>
            ELSE <<>>])

\* the label tuples one recognized row of a capacities sheet appends
RowLabels(matrix_df, region, n) ==
    LET techID == set_technology_labels(matrix_df.Sectors[n]) IN
    IF techID = <<>> THEN <<>>
    ELSE Concat([j \in 1..Len(matrix_df.columns) |->
            LET fuelID == set_fuel_labels(matrix_df.columns[j]) IN
            IF fuelID # <<>> /\ matrix_df.cell[n][j] # 0
            THEN << <<techID[1], techID[2], fuelID[1], fuelID[2], region>> >>
            ELSE <<>>])

SheetLabels(matrix_df) ==
    Concat([n \in 1..Len(matrix_df.Sectors) |->
            RowLabels(matrix_df, set_region(matrix_df.country), n)])

\* obj_labels with self.labels emptied before the sheets are read
obj_labels_Cleared(dict_df, old) ==
    Concat([k \in 1..Len(dict_df) |-> SheetLabels(dict_df[k])])

\* self.labels after obj_labels() has appended the labels of every sheet
obj_labels(dict_df, old) ==
    old \o Concat([k \in 1..Len(dict_df) |-> SheetLabels(dict_df[k])])

\* list({ft for ft in obj_labels if {ft[1], ft[2], ft[-1]}.issubset(filter)})
Filtered(labs, filter) ==
    SetToList({ft \in Range(labs) : {ft[2], ft[3], ft[5]} \subseteq filter})

\* add_ifuel for each label of a filtered list, appended to the list `to`
IFuels(list, to) ==
    [k \in 1..Len(list) |->
        Entry(Fuel(list[k][3], list[k][4], 0, list[k][5]), to, TRUE)]

prim_tech_flow(tech, labs) ==
    IFuels(Filtered(labs, {tech.code, tech.region,
                           "FUE001", "FUE002", "FUE003"}), "out")

conv_tech_flow(tech, labs) ==
    IF tech.category = "UPS001" THEN
        IFuels(Filtered(labs, {tech.code, "FUE001", tech.region}), "in")
        \o IFuels(Filtered(labs, {tech.code, "FUE002", tech.region}), "out")
    ELSE IF tech.category = "UPS002" THEN
        IFuels(Filtered(labs, {tech.code, "FUE001", "FUE002", tech.region}),
               "in")
        \o IFuels(Filtered(labs, {tech.code, "FUE002", tech.region}), "out")
    ELSE
        IFuels(Filtered(labs, {tech.code, "FUE001", "FUE002", tech.region}),
               "in")
        \o IFuels(Filtered(labs, {tech.code, "FUE003", tech.region}), "out")

dem_tech_flow(tech, labs) ==
    IFuels(Filtered(labs, {tech.code, "FUE001", "FUE002", "FUE003",
                           tech.region}), "in")

\* the fuel slots initital_RES gives a technology of the category
tech_flow(tech, labs) ==
    IF tech.category \in {"SUP", "LOS001"} THEN prim_tech_flow(tech, labs)
    ELSE IF tech.category \in {"UPS001", "UPS002", "UPS003"}
         THEN conv_tech_flow(tech, labs)
         ELSE dem_tech_flow(tech, labs)

\* add_itech and the flow of one technology identity, on the builder state
\* st = [heap, techs, fuels] (the skeleton lists or the valued lists)
AddWithEntries(st, code, region, category, entries) ==
    [heap  |-> Allocate(st.heap, entries),
     techs |-> Append(st.techs,
                  Technology(code, region, category,
                             Addresses(st.heap, entries, "in", 1),
                             Addresses(st.heap, entries, "out", 1))),
     fuels |-> st.fuels \o Listed(st.heap, entries, 1)]

add_itech(st, id, labs) ==
    AddWithEntries(st, id[2], id[3], id[1],
        tech_flow(Technology(id[2], id[3], id[1], <<>>, <<>>), labs))

\* the loop of initital_RES over the technology identities
RECURSIVE InititalLoop(_, _, _, _)
InititalLoop(st, ids, labs, k) ==
    IF k > Len(ids) THEN st
    ELSE InititalLoop(add_itech(st, ids[k], labs), ids, labs, k + 1)

-----------------------------------------------------------------------------
(* Value Builder                                                           *)

\* the fuels set_prim_tech creates for the row n of a balance sheet
set_prim_tech(tech_code, region, category, matrix_df, n) ==
    Concat([j \in 1..Len(matrix_df.columns) |->
        LET fuelID == set_fuel_labels(matrix_df.columns[j]) IN
        IF fuelID = <<>> THEN <<>>
        ELSE IF tech_code = "PRO" /\ fuelID[1] \in {"FUE002", "FUE003"}
        THEN <<>>
        ELSE LET cell   == matrix_df.cell[n][j]
                 energy == IF tech_code \in {"EXP", "WAS"} THEN -cell
                           ELSE cell
             IN << Entry(Fuel(fuelID[1], fuelID[2], energy, region),
                         "out", TRUE) >>])

\* set_conv_tech with the tertiary columns of a UPS002 row recorded as inputs
set_conv_tech_TertiaryKept(tech_code, region, category, matrix_df, n) ==
    Concat([j \in 1..Len(matrix_df.columns) |->
        LET fuelID == set_fuel_labels(matrix_df.columns[j]) IN
        IF fuelID = <<>> THEN <<>>
        ELSE
          LET sector == fuelID[1]
              fuel   == Fuel(sector, fuelID[2], matrix_df.cell[n][j], region)
          IN
          IF category = "UPS001" THEN
              IF sector = "FUE003" THEN <<>>
              ELSE IF sector = "FUE001" THEN << Entry(fuel, "in", TRUE) >>
              ELSE << Entry(fuel, "out", TRUE) >>
          ELSE IF category = "UPS002" THEN
              IF sector = "FUE002"
              THEN << Entry(fuel, "in", TRUE), Entry(fuel, "out", FALSE) >>
              ELSE << Entry(fuel, "in", TRUE) >>
          ELSE IF category = "UPS003" THEN
              IF sector = "FUE003" THEN << Entry(fuel, "out", TRUE) >>
              ELSE << Entry(fuel, "in", TRUE) >>
          ELSE <<>>])

\* the fuels set_conv_tech creates for the row n of a balance sheet
set_conv_tech(tech_code, region, category, matrix_df, n) ==
    Concat([j \in 1..Len(matrix_df.columns) |->
        LET fuelID == set_fuel_labels(matrix_df.columns[j]) IN
        IF fuelID = <<>> THEN <<>>
        ELSE
          LET sector == fuelID[1]
              fuel   == Fuel(sector, fuelID[2], matrix_df.cell[n][j], region)
          IN
          IF category = "UPS001" THEN
              IF sector = "FUE003" THEN <<>>
              ELSE IF sector = "FUE001" THEN << Entry(fuel, "in", TRUE) >>
              ELSE << Entry(fuel, "out", TRUE) >>
          ELSE IF category = "UPS002" THEN
              IF sector = "FUE003" THEN <<>>
              ELSE IF sector = "FUE002"
                   \* the output fuel is a deep copy, not added to self.fuels
                   THEN << Entry(fuel, "in", TRUE), Entry(fuel, "out", FALSE) >>
                   ELSE << Entry(fuel, "in", TRUE) >>
          ELSE IF category = "UPS003" THEN
              IF sector = "FUE003" THEN << Entry(fuel, "out", TRUE) >>
              ELSE << Entry(fuel, "in", TRUE) >>
          ELSE <<>>])

\* set_demand_tech with the energy taken from the cell as it is
set_demand_tech_Unsigned(tech_code, region, category, matrix_df, n) ==
    Concat([j \in 1..Len(matrix_df.columns) |->
        LET fuelID == set_fuel_labels(matrix_df.columns[j]) IN
        IF fuelID = <<>> THEN <<>>
        ELSE << Entry(Fuel(fuelID[1], fuelID[2], matrix_df.cell[n][j],
                           region), "in", TRUE) >>])

\* the fuels set_demand_tech creates for the row n of a balance sheet
set_demand_tech(tech_code, region, category, matrix_df, n) ==
    Concat([j \in 1..Len(matrix_df.columns) |->
        LET fuelID == set_fuel_labels(matrix_df.columns[j]) IN
        IF fuelID = <<>> THEN <<>>
        ELSE << Entry(Fuel(fuelID[1], fuelID[2], -matrix_df.cell[n][j],
                           region), "in", TRUE) >>])

add_tech(st, tech_code, region, category, matrix_df, n) ==
    AddWithEntries(st, tech_code, region, category,
        IF category \in {"SUP", "LOS001"}
        THEN set_prim_tech(tech_code, region, category, matrix_df, n)
        ELSE IF category \in {"UPS001", "UPS002", "UPS003"}
        THEN set_conv_tech(tech_code, region, category, matrix_df, n)
        ELSE set_demand_tech(tech_code, region, category, matrix_df, n))

\* the loop of data_RES over the rows of one sheet
RECURSIVE DataRows(_, _, _)
DataRows(st, matrix_df, n) ==
    IF n > Len(matrix_df.Sectors) THEN st
    ELSE LET techID == set_technology_labels(matrix_df.Sectors[n]) IN
         IF techID = <<>> THEN DataRows(st, matrix_df, n + 1)
         ELSE DataRows(add_tech(st, techID[2], set_region(matrix_df.country),
                                techID[1], matrix_df, n),
                       matrix_df, n + 1)

\* the loop of data_RES over the sheets
RECURSIVE DataSheets(_, _, _)
DataSheets(st, dict_df, k) ==
    IF k > Len(dict_df) THEN st
    ELSE DataSheets(DataRows(st, dict_df[k], 1), dict_df, k + 1)

\* split_flow with the technologies of every conversion category clipped
split_flow_AllConversion(h, ts) ==
    LET conv_techs == {k \in DOMAIN ts :
                         ts[k].category \in {"UPS001", "UPS002", "UPS003"}}
        ins  == UNION {Range(ts[k].in_fuels) : k \in conv_techs}
        outs == UNION {Range(ts[k].out_fuels) : k \in conv_techs}
    IN [a \in DOMAIN h |->
          IF a \in ins /\ h[a].energy_PJ > 0
          THEN [h[a] EXCEPT !.energy_PJ = 0]
          ELSE IF a \in outs /\ h[a].energy_PJ < 0
          THEN [h[a] EXCEPT !.energy_PJ = 0]
          ELSE h[a]]

\* split_flow: the heap after the inputs and outputs of UPS002 are clipped
split_flow(h, ts) ==
    LET conv_techs == {k \in DOMAIN ts : ts[k].category = "UPS002"}
        ins  == UNION {Range(ts[k].in_fuels) : k \in conv_techs}
        outs == UNION {Range(ts[k].out_fuels) : k \in conv_techs}
    IN [a \in DOMAIN h |->
          IF a \in ins /\ h[a].energy_PJ > 0
          THEN [h[a] EXCEPT !.energy_PJ = 0]
          ELSE IF a \in outs /\ h[a].energy_PJ < 0
          THEN [h[a] EXCEPT !.energy_PJ = 0]
          ELSE h[a]]

-----------------------------------------------------------------------------
(* RES Merger                                                              *)

\* CopyEnergies with the valued fuel taken at the position of the skeleton
\* fuel instead of being looked up by identity
RECURSIVE CopyEnergiesByPosition(_, _, _, _)
CopyEnergiesByPosition(h, T_fuels, t_fuels, k) ==
    IF k > Len(T_fuels) THEN [heap |-> h, err |-> NoError]
    ELSE IF k > Len(t_fuels)
    THEN [heap |-> h, err |-> Raise("IndexError", "fill_RES", <<>>)]
    ELSE CopyEnergiesByPosition(
            [h EXCEPT ![T_fuels[k]].energy_PJ = h[t_fuels[k]].energy_PJ],
            T_fuels, t_fuels, k + 1)

\* for f in T_fuels: f.energy_PJ = t_fuels[t_fuels.index(f)].energy_PJ
RECURSIVE CopyEnergies(_, _, _, _)
CopyEnergies(h, T_fuels, t_fuels, k) ==
    IF k > Len(T_fuels) THEN [heap |-> h, err |-> NoError]
    ELSE LET f == T_fuels[k]
             i == FuelIndex(h, t_fuels, f)
         IN IF i = 0
            THEN [heap |-> h,
                  err  |-> Raise("ValueError", "fill_RES", FuelRepr(h[f]))]
            ELSE CopyEnergies([h EXCEPT ![f].energy_PJ = h[t_fuels[i]].energy_PJ],
                              T_fuels, t_fuels, k + 1)

\* fill_tech with the energies copied from the skeleton fuels to the valued
\* fuels
fill_tech_Backward(h, T, ts) ==
    LET i == TechIndex(ts, T) IN
    IF i = 0
    THEN [heap |-> h, err |-> Raise("ValueError", "fill_RES", TechRepr(T))]
    ELSE LET t == ts[i] IN
         IF T.category \in {"SUP", "LOS001"}
         THEN CopyEnergies(h, t.out_fuels, T.out_fuels, 1)
         ELSE IF T.category \in {"UPS001", "UPS002", "UPS003"}
         THEN LET r == CopyEnergies(h, t.in_fuels, T.in_fuels, 1) IN
              IF r.err # NoError THEN r
              ELSE CopyEnergies(r.heap, t.out_fuels, T.out_fuels, 1)
         ELSE CopyEnergies(h, t.in_fuels, T.in_fuels, 1)

\* the body of the loop of fill_RES for the skeleton technology T
fill_tech(h, T, ts) ==
    LET i == TechIndex(ts, T) IN
    IF i = 0
    THEN [heap |-> h, err |-> Raise("ValueError", "fill_RES", TechRepr(T))]
    ELSE LET t == ts[i] IN
         IF T.category \in {"SUP", "LOS001"}
         THEN CopyEnergies(h, T.out_fuels, t.out_fuels, 1)
         ELSE IF T.category \in {"UPS001", "UPS002", "UPS003"}
         THEN LET r == CopyEnergies(h, T.in_fuels, t.in_fuels, 1) IN
              IF r.err # NoError THEN r
              ELSE CopyEnergies(r.heap, T.out_fuels, t.out_fuels, 1)
         ELSE CopyEnergies(h, T.in_fuels, t.in_fuels, 1)

\* FillLoop with the exception of a lookup swallowed and the loop continued
RECURSIVE FillLoopSwallowed(_, _, _, _)
FillLoopSwallowed(h, itechs, ts, k) ==
    IF k > Len(itechs) THEN [heap |-> h, err |-> NoError]
    ELSE FillLoopSwallowed(fill_tech(h, itechs[k], ts).heap, itechs, ts, k + 1)

\* for T in itechs, up to the first exception
RECURSIVE FillLoop(_, _, _, _)
FillLoop(h, itechs, ts, k) ==
    IF k > Len(itechs) THEN [heap |-> h, err |-> NoError]
    ELSE LET r == fill_tech(h, itechs[k], ts) IN
         IF r.err # NoError THEN r
         ELSE FillLoop(r.heap, itechs, ts, k + 1)

-----------------------------------------------------------------------------
(* Loss Reducer                                                            *)

\* AddEnergies with the energy of the other fuel assigned instead of added
RECURSIVE AddEnergiesAssigned(_, _, _, _)
AddEnergiesAssigned(h, self_fuels, other_fuels, k) ==
    IF k > Len(self_fuels) THEN [heap |-> h, err |-> NoError, ret |-> "self"]
    ELSE LET f == self_fuels[k]
             i == FuelIndex(h, other_fuels, f)
         IN IF i = 0
            THEN [heap |-> h, ret |-> "None",
                  err  |-> Raise("ValueError", "__add__", FuelRepr(h[f]))]
            ELSE AddEnergiesAssigned(
                    [h EXCEPT ![f].energy_PJ = h[other_fuels[i]].energy_PJ],
                    self_fuels, other_fuels, k + 1)

\* for f in self_fuels: f.energy_PJ += other_fuels[other_fuels.index(f)].energy_PJ
RECURSIVE AddEnergies(_, _, _, _)
AddEnergies(h, self_fuels, other_fuels, k) ==
    IF k > Len(self_fuels) THEN [heap |-> h, err |-> NoError, ret |-> "self"]
    ELSE LET f == self_fuels[k]
             i == FuelIndex(h, other_fuels, f)
         IN IF i = 0
            THEN [heap |-> h, ret |-> "None",
                  err  |-> Raise("ValueError", "__add__", FuelRepr(h[f]))]
            ELSE AddEnergies(
                    [h EXCEPT ![f].energy_PJ =
                                 h[f].energy_PJ + h[other_fuels[i]].energy_PJ],
                    self_fuels, other_fuels, k + 1)

\* Technology.__add__ with the pair of codes tested by membership, so that
\* two technologies of one code are added too
Technology_add_AnyLoss(h, self, other) ==
    IF self.cls = other.cls THEN
        IF {self.code, other.code} \subseteq {"INV", "WAS"} THEN
            IF self.cls = "Demand_Tech"
            THEN [heap |-> h, ret |-> "None",
                  err |-> Raise("AttributeError", "__add__", <<"out_fuels">>)]
            ELSE AddEnergies(h, self.out_fuels, other.out_fuels, 1)
        ELSE IF {self.code, other.code} \subseteq {"OWN", "LOS"} THEN
            IF self.cls = "Primary_Tech"
            THEN [heap |-> h, ret |-> "None",
                  err |-> Raise("AttributeError", "__add__", <<"in_fuels">>)]
            ELSE AddEnergies(h, self.in_fuels, other.in_fuels, 1)
        ELSE [heap |-> h, err |-> NoError, ret |-> "None"]
    ELSE [heap |-> h, err |-> NoError, ret |-> "None"]

\* Technology.__add__: the heap after self + other, the exception, the result
Technology_add(h, self, other) ==
    IF self.cls = other.cls THEN
        IF {self.code, other.code} = {"INV", "WAS"} THEN
            IF self.cls = "Demand_Tech"     \* no attribute out_fuels
            THEN [heap |-> h, ret |-> "None",
                  err |-> Raise("AttributeError", "__add__", <<"out_fuels">>)]
            ELSE AddEnergies(h, self.out_fuels, other.out_fuels, 1)
        ELSE IF {self.code, other.code} = {"OWN", "LOS"} THEN
            IF self.cls = "Primary_Tech"    \* no attribute in_fuels
            THEN [heap |-> h, ret |-> "None",
                  err |-> Raise("AttributeError", "__add__", <<"in_fuels">>)]
            ELSE AddEnergies(h, self.in_fuels, other.in_fuels, 1)
        ELSE [heap |-> h, err |-> NoError, ret |-> "None"]
    ELSE [heap |-> h, err |-> NoError, ret |-> "None"]

\* ReduceRegion with a region that lacks a member of the pair skipped
ReduceRegionSkipping(st, r, kept, gone, at) ==
    LET i == First({k \in DOMAIN st.techs :
                      st.techs[k].code = kept /\ st.techs[k].region = r})
        j == First({k \in DOMAIN st.techs :
                      st.techs[k].code = gone /\ st.techs[k].region = r})
    IN IF i = 0 \/ j = 0
       THEN st
       ELSE LET a == Technology_add(st.heap, st.techs[i], st.techs[j]) IN
            IF a.err # NoError
            THEN [heap |-> a.heap, techs |-> st.techs, err |-> a.err]
            ELSE [heap  |-> a.heap,
                  techs |-> RemoveAt(st.techs, TechIndex(st.techs, st.techs[j])),
                  err   |-> NoError]

\* One region of a reducer: kept + gone, then self._techs.remove(gone).
\* st = [heap, techs, err], techs being the list passed in, which is
\* self._techs itself.
ReduceRegion(st, r, kept, gone, at) ==
    LET i == First({k \in DOMAIN st.techs :
                      st.techs[k].code = kept /\ st.techs[k].region = r})
        j == First({k \in DOMAIN st.techs :
                      st.techs[k].code = gone /\ st.techs[k].region = r})
    IN IF i = 0 \/ j = 0
       THEN [st EXCEPT !.err = Raise("IndexError", at, <<>>)]
       ELSE LET a == Technology_add(st.heap, st.techs[i], st.techs[j]) IN
            IF a.err # NoError
            THEN [heap |-> a.heap, techs |-> st.techs, err |-> a.err]
            ELSE [heap  |-> a.heap,
                  techs |-> RemoveAt(st.techs, TechIndex(st.techs, st.techs[j])),
                  err   |-> NoError]

\* ReduceLoop with the exception of an addition dropped and the loop going
\* on with the next region
RECURSIVE ReduceLoopContinuing(_, _, _, _, _, _)
ReduceLoopContinuing(st, regions, k, kept, gone, at) ==
    IF k > Len(regions) THEN st
    ELSE LET n == ReduceRegion(st, regions[k], kept, gone, at) IN
         IF n.err.type = "IndexError" THEN n
         ELSE ReduceLoopContinuing([n EXCEPT !.err = NoError],
                                   regions, k + 1, kept, gone, at)

\* the loop of a reducer over the regions, up to the first exception
RECURSIVE ReduceLoop(_, _, _, _, _, _)
ReduceLoop(st, regions, k, kept, gone, at) ==
    IF k > Len(regions) THEN st
    ELSE LET n == ReduceRegion(st, regions[k], kept, gone, at) IN
         IF n.err # NoError THEN n
         ELSE ReduceLoop(n, regions, k + 1, kept, gone, at)

Regions(ts) == SetToList({ts[k].region : k \in DOMAIN ts})

\* sum_prim_loss_tech with the roles exchanged: inv_tech + was_tech, then WAS
\* is removed
sum_prim_loss_tech_InvKept(h, ts) ==
    ReduceLoop([heap |-> h, techs |-> ts, err |-> NoError],
               Regions(ts), 1, "INV", "WAS", "sum_prim_loss_tech")

\* sum_prim_loss_tech(techs): was_tech + inv_tech, then INV is removed
sum_prim_loss_tech(h, ts) ==
    ReduceLoop([heap |-> h, techs |-> ts, err |-> NoError],
               Regions(ts), 1, "WAS", "INV", "sum_prim_loss_tech")

\* sum_sec_loss_tech(techs): own_tech + los_tech, then LOS is removed
sum_sec_loss_tech(h, ts) ==
    ReduceLoop([heap |-> h, techs |-> ts, err |-> NoError],
               Regions(ts), 1, "OWN", "LOS", "sum_sec_loss_tech")

-----------------------------------------------------------------------------
(* Inputs: the two workbooks                                               *)

\* A frame fixes the sheets, the rows and the columns of both workbooks and
\* names the cells that vary; a cell outside free is marked possible in the
\* capacities workbook and holds 1.0 PJ in the balance workbook.  With
\* short = TRUE the balance workbook lacks the last row of every sheet.
Frame(countries, Sectors, columns, freeRows, short) ==
    [countries |-> countries, Sectors |-> Sectors, columns |-> columns,
     free |-> {c \in (1..Len(countries)) \X freeRows \X (2..Len(columns)) :
                 TRUE},
     short |-> short]

Workbook(fr, rows, free, fixed) ==
    [k \in 1..Len(fr.countries) |->
        [country |-> fr.countries[k],
         Sectors |-> SubSeq(fr.Sectors, 1, rows),
         columns |-> fr.columns,
         cell    |-> [n \in 1..rows |-> [j \in 1..Len(fr.columns) |->
                        IF j = 1 THEN 0
                        ELSE IF <<k, n, j>> \in fr.free THEN free[<<k, n, j>>]
                        ELSE fixed]]]]

\* supply, conversion and demand rows: each frame varies four cells or fewer
FramesMerge ==
    { Frame(<<"Costa Rica">>, <<"Unit", "PRODUCCION", "EXPORTACION">>,
            <<"Sectors", "PETROLEO", "COQUE">>, {2, 3}, FALSE),
      Frame(<<"Atlantis">>, <<"Unit", "PRODUCCION">>,
            <<"Sectors", "PETROLEO", "TOTAL">>, {2}, FALSE),
      Frame(<<"Costa Rica", "Atlantis">>, <<"IMPORTACION">>,
            <<"Sectors", "PETROLEO", "COQUE">>, {1}, FALSE),
      Frame(<<"Chile">>, <<"PRODUCCION", "CARBONERA">>,
            <<"Sectors", "PETROLEO", "COQUE">>, {1, 2}, FALSE),
      Frame(<<"Costa Rica", "Chile">>, <<"CARBONERA">>,
            <<"Sectors", "PETROLEO", "COQUE">>, {1}, FALSE),
      Frame(<<"Costa Rica">>,
            <<"COQUERIA Y ALTOS HORNOS", "CENTRALES ELECTRICAS">>,
            <<"Sectors", "COQUE", "ELECTRICIDAD">>, {1, 2}, FALSE),
      Frame(<<"Costa Rica">>, <<"Unit", "COQUERIA Y ALTOS HORNOS">>,
            <<"Sectors", "PETROLEO", "COQUE", "ELECTRICIDAD">>, {2}, FALSE),
      Frame(<<"Costa Rica">>, <<"REFINERIAS", "TRANSPORTE", "DEMANDA FINAL">>,
            <<"Sectors", "PETROLEO", "COQUE">>, {1, 2}, FALSE),
      Frame(<<"Costa Rica">>, <<"Unit", "IMPORTACION", "EXPORTACION">>,
            <<"Sectors", "PETROLEO", "COQUE">>, {2, 3}, TRUE) }

\* the four loss rows; in the frames of two columns one pair of rows varies
\* and the other is fixed, in the frames of two sheets the first sheet is
\* fixed
FramesLoss ==
    { Frame(<<"Costa Rica">>,
            <<"Unit", "VARIACION DE INVENTARIOS", "NO APROVECHADO",
              "CONSUMO PROPIO", "PERDIDAS">>,
            <<"Sectors", "PETROLEO">>, {2, 3, 4, 5}, FALSE),
      Frame(<<"Costa Rica">>,
            <<"VARIACION DE INVENTARIOS", "NO APROVECHADO",
              "CONSUMO PROPIO", "PERDIDAS">>,
            <<"Sectors", "PETROLEO", "COQUE">>, {1, 2}, FALSE),
      Frame(<<"Costa Rica">>,
            <<"VARIACION DE INVENTARIOS", "NO APROVECHADO",
              "CONSUMO PROPIO", "PERDIDAS">>,
            <<"Sectors", "PETROLEO", "COQUE">>, {3, 4}, FALSE),
      [ Frame(<<"Costa Rica", "Chile">>,
            <<"VARIACION DE INVENTARIOS", "NO APROVECHADO",
              "CONSUMO PROPIO", "PERDIDAS">>,
            <<"Sectors", "PETROLEO">>, {1, 2, 3, 4}, FALSE)
        EXCEPT !.free = {c \in @ : c[1] = 2} ],
      [ Frame(<<"Costa Rica", "Atlantis">>,
            <<"VARIACION DE INVENTARIOS", "NO APROVECHADO",
              "CONSUMO PROPIO", "PERDIDAS">>,
            <<"Sectors", "PETROLEO">>, {1, 2, 3, 4}, FALSE)
        EXCEPT !.free = {c \in @ : c[1] = 2} ],
      \* INV may lack the COQUE slot WAS has, and OWN may be absent
      [ Frame(<<"Costa Rica">>,
            <<"VARIACION DE INVENTARIOS", "NO APROVECHADO",
              "CONSUMO PROPIO", "PERDIDAS">>,
            <<"Sectors", "PETROLEO", "COQUE">>, {1, 3}, FALSE)
        EXCEPT !.free = @ \ {<<1, 1, 2>>} ],
      \* INV of the first sheet may lack the COQUE slot, INV of the second
      \* sheet may be absent
      [ Frame(<<"Costa Rica", "Chile">>,
            <<"VARIACION DE INVENTARIOS", "NO APROVECHADO",
              "CONSUMO PROPIO", "PERDIDAS">>,
            <<"Sectors", "PETROLEO", "COQUE">>, {1}, FALSE)
        EXCEPT !.free = @ \ {<<1, 1, 2>>} ] }

\* balance cells, in tenths of a PJ
ValuesMerge == {-30, 0, 125}

ValuesLoss == {-30, 0, 20}

\* EnergyMatrix.__init__, and the workbooks read_base and read_data will read
InitWith(frames, values) ==
    \E fr \in frames :
      \E ind \in [fr.free -> {0, 1}], bal \in [fr.free -> values] :
        /\ res = Workbook(fr, Len(fr.Sectors), ind, 1)
        /\ matrix = Workbook(fr, IF fr.short THEN Len(fr.Sectors) - 1
                                 ELSE Len(fr.Sectors), bal, 10)
        /\ heap = <<>>
        /\ techs = <<>>
        /\ fuels = <<>>
        /\ labels = <<>>
        /\ _techs = <<>>
        /\ _fuels = <<>>
        /\ pc = "initital_RES"
        /\ err = NoError
        /\ calls = 0
        /\ hashseed \in HashSeeds
        /\ left = "None"
        /\ right = "None"
        /\ ret = "None"
        /\ ipc = 0
        /\ dpc = 0
        /\ made = NoCalls

Init == InitWith(FramesMerge, ValuesMerge)

InitLoss == InitWith(FramesLoss, ValuesLoss)

-----------------------------------------------------------------------------
(* build_RES                                                               *)

\* fill_RES calls initital_RES first
initital_RES ==
    /\ pc = "initital_RES"
    /\ LET labs == obj_labels(res, labels)
           ids  == SetToList({<<ft[1], ft[2], ft[5]>> : ft \in Range(labs)})
           st   == InititalLoop([heap |-> heap, techs |-> _techs,
                                 fuels |-> _fuels], ids, labs, 1)
       IN /\ labels' = labs
          /\ heap' = st.heap
          /\ _techs' = st.techs
          /\ _fuels' = st.fuels
    /\ pc' = "data_RES"
    /\ UNCHANGED <<res, matrix, techs, fuels, err, calls, hashseed, operands,
                   threads, made>>

\* then data_RES, which ends with split_flow
data_RES ==
    /\ pc = "data_RES"
    /\ LET st == DataSheets([heap |-> heap, techs |-> techs,
                             fuels |-> fuels], matrix, 1)
       IN /\ heap' = split_flow(st.heap, st.techs)
          /\ techs' = st.techs
          /\ fuels' = st.fuels
    /\ pc' = "fill_RES"
    /\ UNCHANGED <<res, matrix, labels, _techs, _fuels, err, calls, hashseed,
                   operands, threads, made>>

\* the merge loop of fill_RES started before data_RES has run
fill_RES_BeforeData ==
    /\ pc = "data_RES"
    /\ LET r == FillLoop(heap, _techs, techs, 1) IN
          /\ heap' = r.heap
          /\ err' = r.err
          /\ pc' = IF r.err = NoError THEN "sum_prim_loss_tech" ELSE "fault"
    /\ UNCHANGED <<res, matrix, techs, fuels, labels, _techs, _fuels,
                   calls, hashseed, operands, threads, made>>

\* then the merge loop of fill_RES
fill_RES ==
    /\ pc = "fill_RES"
    /\ LET r == FillLoop(heap, _techs, techs, 1) IN
          /\ heap' = r.heap
          /\ err' = r.err
          /\ pc' = IF r.err = NoError THEN "sum_prim_loss_tech" ELSE "fault"
    /\ UNCHANGED <<res, matrix, techs, fuels, labels, _techs, _fuels,
                   calls, hashseed, operands, threads, made>>

\* Reduced with the list and the fuels put back as they were when the
\* reducer raises
ReducedRolledBack(st, next) ==
    /\ heap' = IF st.err # NoError THEN heap ELSE st.heap
    /\ _techs' = IF st.err # NoError THEN _techs ELSE st.techs
    /\ err' = st.err
    /\ pc' = IF st.err # NoError THEN "fault"
             ELSE IF pc = "done" THEN "done" ELSE next
    /\ calls' = IF pc = "done" THEN calls + 1 ELSE calls
    /\ UNCHANGED <<res, matrix, techs, fuels, labels, _fuels, hashseed,
                   operands, threads, made>>

\* A reducer runs as a step of build_RES, or is called again on self._techs
\* after build_RES has returned; st is the state it leaves.
Reduced(st, next) ==
    /\ heap' = st.heap
    /\ _techs' = st.techs
    /\ err' = st.err
    /\ pc' = IF st.err # NoError THEN "fault"
             ELSE IF pc = "done" THEN "done" ELSE next
    /\ calls' = IF pc = "done" THEN calls + 1 ELSE calls
    /\ UNCHANGED <<res, matrix, techs, fuels, labels, _fuels, hashseed,
                   operands, threads, made>>

SumPrim ==
    /\ pc \in {"sum_prim_loss_tech", "done"}
    /\ pc = "done" => calls < MaxRecalls
    /\ Reduced(sum_prim_loss_tech(heap, _techs), "sum_sec_loss_tech")

SumSec ==
    /\ pc \in {"sum_sec_loss_tech", "done"}
    /\ pc = "done" => calls < MaxRecalls
    /\ Reduced(sum_sec_loss_tech(heap, _techs), "done")

Next ==
    \/ initital_RES
    \/ data_RES
    \/ fill_RES
    \/ SumPrim
    \/ SumSec

Spec == Init /\ [][Next]_vars

SpecLoss == InitLoss /\ [][Next]_vars

-----------------------------------------------------------------------------
(* Technology.__eq__ and Fuel.__eq__ called directly                       *)

\* Technology instances to compare: any class with any category, codes and
\* regions that coincide as strings, any fuel lists
TechOperands ==
    [cls : {"Primary_Tech", "Convertion_Tech"},
     category : {"SUP", "UPS001"},
     code : {"CHL", "CRI", "SUP", "UPS001"},
     region : {"CHL", "CRI"},
     in_fuels : {<<>>, <<1>>},
     out_fuels : {<<>>, <<2>>}]

\* Fuel instances to compare
FuelOperands ==
    [cls : {"Primary_Fuel", "Second_Fuel"},
     code : {"CHL", "CRI", "CRU"},
     region : {"CHL", "CRI"},
     energy_PJ : {0, 125}]

\* two instances of one kind on a fresh EnergyMatrix
InitEq ==
    /\ \/ left \in TechOperands /\ right \in TechOperands
       \/ left \in FuelOperands /\ right \in FuelOperands
    /\ ret = "None"
    /\ pc = "__eq__"
    /\ heap = << Fuel("FUE001", "CRU", 0, "CRI"),
                 Fuel("FUE002", "COK", 125, "CRI") >>
    /\ res = <<>>
    /\ matrix = <<>>
    /\ techs = <<>>
    /\ fuels = <<>>
    /\ labels = <<>>
    /\ _techs = <<>>
    /\ _fuels = <<>>
    /\ err = NoError
    /\ calls = 0
    /\ hashseed = 0
    /\ ipc = 0
    /\ dpc = 0
    /\ made = NoCalls

\* what a comparison leaves: left == right and right == left
Compared(forward, backward) ==
    /\ ret' = [forward |-> forward, backward |-> backward]
    /\ pc' = "returned"
    /\ UNCHANGED <<res, matrix, heap, techs, fuels, labels, _techs, _fuels,
                   err, calls, hashseed, left, right, threads, made>>

CompareTechnologies ==
    /\ pc = "__eq__"
    /\ "category" \in DOMAIN left
    /\ Compared(Technology_eq(left, right), Technology_eq(right, left))

CompareFuels ==
    /\ pc = "__eq__"
    /\ "energy_PJ" \in DOMAIN left
    /\ Compared(Fuel_eq(left, right), Fuel_eq(right, left))

NextEq ==
    \/ CompareTechnologies
    \/ CompareFuels

SpecEq == InitEq /\ [][NextEq]_vars

-----------------------------------------------------------------------------
(* Technology.__add__ called directly                                      *)

\* Technology instances to add: any class with any of the loss codes or
\* another code, fuels taken from the given lists; a Primary_Tech has no
\* in_fuels and a Demand_Tech no out_fuels
AddOperands(lists) ==
    { T \in [cls : {"Primary_Tech", "Convertion_Tech", "Demand_Tech"},
             category : {"LOS001"},
             code : {"INV", "WAS", "OWN", "LOS", "PRO"},
             region : {"CRI"},
             in_fuels : lists,
             out_fuels : lists] :
        /\ T.cls = "Primary_Tech" => T.in_fuels = <<>>
        /\ T.cls = "Demand_Tech" => T.out_fuels = <<>> }

\* two technologies with fuels of their own; the right one may lack a fuel
\* the left one has
InitAdd ==
    /\ left \in AddOperands({<<>>, <<1>>, <<1, 2>>})
    /\ right \in AddOperands({<<>>, <<3>>, <<3, 4>>})
    /\ ret = "None"
    /\ pc = "__add__"
    /\ heap = << Fuel("FUE001", "CRU", 20, "CRI"),
                 Fuel("FUE002", "COK", -30, "CRI"),
                 Fuel("FUE001", "CRU", 10, "CRI"),
                 Fuel("FUE002", "COK", 5, "CRI") >>
    /\ res = <<>>
    /\ matrix = <<>>
    /\ techs = <<>>
    /\ fuels = <<>>
    /\ labels = <<>>
    /\ _techs = <<>>
    /\ _fuels = <<>>
    /\ err = NoError
    /\ calls = 0
    /\ hashseed = 0
    /\ ipc = 0
    /\ dpc = 0
    /\ made = NoCalls

\* left + right returns or raises
Add ==
    /\ pc = "__add__"
    /\ LET r == Technology_add(heap, left, right) IN
          /\ heap' = r.heap
          /\ err' = r.err
          /\ ret' = r.ret
          /\ pc' = IF r.err = NoError THEN "returned" ELSE "raised"
    /\ UNCHANGED <<res, matrix, techs, fuels, labels, _techs, _fuels,
                   calls, hashseed, left, right, threads, made>>

NextAdd == Add

SpecAdd == InitAdd /\ [][NextAdd]_vars

-----------------------------------------------------------------------------
(* initital_RES and data_RES called directly, as two threads               *)

\* two sheets of one conversion row, and one sheet of the UPS002 and UPS003
\* rows: every cell varies
FramesOrder ==
    { Frame(<<"Costa Rica", "Chile">>, <<"CARBONERA">>,
            <<"Sectors", "PETROLEO", "COQUE">>, {1}, FALSE),
      Frame(<<"Costa Rica">>,
            <<"COQUERIA Y ALTOS HORNOS", "CENTRALES ELECTRICAS">>,
            <<"Sectors", "COQUE", "ELECTRICIDAD">>, {1, 2}, FALSE) }

\* a fresh EnergyMatrix whose two builders are about to be called
InitOrder ==
    \E fr \in FramesOrder :
      \E ind \in [fr.free -> {0, 1}], bal \in [fr.free -> ValuesMerge] :
        /\ res = Workbook(fr, Len(fr.Sectors), ind, 1)
        /\ matrix = Workbook(fr, Len(fr.Sectors), bal, 10)
        /\ heap = <<>>
        /\ techs = <<>>
        /\ fuels = <<>>
        /\ labels = <<>>
        /\ _techs = <<>>
        /\ _fuels = <<>>
        /\ pc = "threads"
        /\ err = NoError
        /\ calls = 0
        /\ hashseed \in HashSeeds
        /\ left = "None"
        /\ right = "None"
        /\ ret = "None"
        /\ ipc = 0
        /\ dpc = 0
        /\ made = NoCalls

\* techs = list({(ft[0], ft[1], ft[-1]) for ft in obj_labels})
Identities(labs) == SetToList({<<ft[1], ft[2], ft[5]>> : ft \in Range(labs)})

\* initital_RES: the call of obj_labels
StructureLabels ==
    /\ pc = "threads"
    /\ ipc = 0
    /\ labels' = obj_labels(res, labels)
    /\ ipc' = 1
    /\ UNCHANGED <<res, matrix, heap, techs, fuels, _techs, _fuels, pc, err,
                   calls, hashseed, operands, dpc, made>>

\* initital_RES: one pass of the loop over the technology identities
StructureTechnology ==
    /\ pc = "threads"
    /\ ipc \in 1..Len(Identities(labels))
    /\ LET st == add_itech([heap |-> heap, techs |-> _techs,
                            fuels |-> _fuels],
                           Identities(labels)[ipc], labels)
       IN /\ heap' = st.heap
          /\ _techs' = st.techs
          /\ _fuels' = st.fuels
    /\ ipc' = ipc + 1
    /\ UNCHANGED <<res, matrix, techs, fuels, labels, pc, err, calls,
                   hashseed, operands, dpc, made>>

\* ValuesSheet with the new fuels appended to self._fuels as well
ValuesSheetShared ==
    /\ pc = "threads"
    /\ dpc < Len(matrix)
    /\ LET st == DataRows([heap |-> heap, techs |-> techs, fuels |-> fuels],
                          matrix[dpc + 1], 1)
       IN /\ heap' = st.heap
          /\ techs' = st.techs
          /\ fuels' = st.fuels
          /\ _fuels' = _fuels \o SubSeq(st.fuels, Len(fuels) + 1,
                                        Len(st.fuels))
    /\ dpc' = dpc + 1
    /\ UNCHANGED <<res, matrix, labels, _techs, pc, err, calls,
                   hashseed, operands, ipc, made>>

\* data_RES: the rows of one sheet
ValuesSheet ==
    /\ pc = "threads"
    /\ dpc < Len(matrix)
    /\ LET st == DataRows([heap |-> heap, techs |-> techs, fuels |-> fuels],
                          matrix[dpc + 1], 1)
       IN /\ heap' = st.heap
          /\ techs' = st.techs
          /\ fuels' = st.fuels
    /\ dpc' = dpc + 1
    /\ UNCHANGED <<res, matrix, labels, _techs, _fuels, pc, err, calls,
                   hashseed, operands, ipc, made>>

\* data_RES: the call of split_flow
ValuesSplit ==
    /\ pc = "threads"
    /\ dpc = Len(matrix)
    /\ heap' = split_flow(heap, techs)
    /\ dpc' = dpc + 1
    /\ UNCHANGED <<res, matrix, techs, fuels, labels, _techs, _fuels, pc,
                   err, calls, hashseed, operands, ipc, made>>

NextOrder ==
    \/ StructureLabels
    \/ StructureTechnology
    \/ ValuesSheet
    \/ ValuesSplit

SpecOrder == InitOrder /\ [][NextOrder]_vars

-----------------------------------------------------------------------------
(* initital_RES, data_RES and build_RES called again on one instance       *)

\* a sheet of supply rows and a sheet of the four loss rows: every cell of
\* the recognized rows varies
FramesAgain ==
    { Frame(<<"Costa Rica">>, <<"Unit", "PRODUCCION", "EXPORTACION">>,
            <<"Sectors", "PETROLEO", "COQUE">>, {2, 3}, FALSE),
      Frame(<<"Costa Rica">>,
            <<"VARIACION DE INVENTARIOS", "NO APROVECHADO",
              "CONSUMO PROPIO", "PERDIDAS">>,
            <<"Sectors", "PETROLEO">>, {1, 2, 3, 4}, FALSE) }

ValuesAgain == {-30, 20}

\* a fresh EnergyMatrix on which the methods are about to be called
InitAgain ==
    \E fr \in FramesAgain :
      \E ind \in [fr.free -> {0, 1}], bal \in [fr.free -> ValuesAgain] :
        /\ res = Workbook(fr, Len(fr.Sectors), ind, 1)
        /\ matrix = Workbook(fr, Len(fr.Sectors), bal, 10)
        /\ heap = <<>>
        /\ techs = <<>>
        /\ fuels = <<>>
        /\ labels = <<>>
        /\ _techs = <<>>
        /\ _fuels = <<>>
        /\ pc = "fresh"
        /\ err = NoError
        /\ calls = 0
        /\ hashseed \in HashSeeds
        /\ left = "None"
        /\ right = "None"
        /\ ret = "None"
        /\ ipc = 0
        /\ dpc = 0
        /\ made = NoCalls

\* the calls made so far
CallsMade == made.initital_RES + made.data_RES + made.build_RES

\* initital_RES is called: the lists and the fuels it leaves
initital_RES_call(st) ==
    LET labs == obj_labels(res, st.labels)
        ids  == SetToList({<<ft[1], ft[2], ft[5]>> : ft \in Range(labs)})
        s    == InititalLoop([heap |-> st.heap, techs |-> st._techs,
                              fuels |-> st._fuels], ids, labs, 1)
    IN [st EXCEPT !.labels = labs, !.heap = s.heap, !._techs = s.techs,
                  !._fuels = s.fuels]

\* data_RES is called: the lists and the fuels it leaves
data_RES_call(st) ==
    LET v == DataSheets([heap |-> st.heap, techs |-> st.techs,
                         fuels |-> st.fuels], matrix, 1)
    IN [st EXCEPT !.heap = split_flow(v.heap, v.techs), !.techs = v.techs,
                  !.fuels = v.fuels]

\* the instance as a call finds it
Instance ==
    [labels |-> labels, _techs |-> _techs, _fuels |-> _fuels,
     techs |-> techs, fuels |-> fuels, heap |-> heap, err |-> NoError]

\* a call of a method returns or raises and leaves the instance as st
Called(method, st) ==
    /\ CallsMade < MaxCalls
    /\ labels' = st.labels
    /\ _techs' = st._techs
    /\ _fuels' = st._fuels
    /\ techs' = st.techs
    /\ fuels' = st.fuels
    /\ heap' = st.heap
    /\ err' = st.err
    /\ pc' = method
    /\ made' = [made EXCEPT ![method] = @ + 1]
    /\ UNCHANGED <<res, matrix, calls, hashseed, operands, threads>>

CallInitital ==
    \E st \in {Instance} :
      \E b \in {initital_RES_call(st)} : Called("initital_RES", b)

CallData ==
    \E st \in {Instance} :
      \E b \in {data_RES_call(st)} : Called("data_RES", b)

\* build_RES is called: fill_RES, which calls the two builders and merges,
\* then the two reducers, up to the first exception
CallBuild ==
    \E st \in {Instance} :
      \E i \in {initital_RES_call(st)} :
        \E b \in {data_RES_call(i)} :
          \E f \in {FillLoop(b.heap, b._techs, b.techs, 1)} :
            \E p \in {IF f.err # NoError
                      THEN [heap |-> f.heap, techs |-> b._techs, err |-> f.err]
                      ELSE sum_prim_loss_tech(f.heap, b._techs)} :
              \E q \in {IF p.err # NoError THEN p
                        ELSE sum_sec_loss_tech(p.heap, p.techs)} :
                Called("build_RES", [b EXCEPT !.heap = q.heap,
                                              !._techs = q.techs,
                                              !.err = q.err])

NextAgain ==
    \/ CallInitital
    \/ CallData
    \/ CallBuild

SpecAgain == InitAgain /\ [][NextAgain]_vars

-----------------------------------------------------------------------------
(* build_RES on workbooks of two sheets of which the second is incomplete  *)

\* two sheets of one conversion row, and two sheets of the four loss rows of
\* which the first is fixed
FramesFault ==
    { Frame(<<"Costa Rica", "Chile">>, <<"CARBONERA">>,
            <<"Sectors", "PETROLEO", "COQUE">>, {1}, FALSE),
      [ Frame(<<"Costa Rica", "Chile">>,
            <<"VARIACION DE INVENTARIOS", "NO APROVECHADO",
              "CONSUMO PROPIO", "PERDIDAS">>,
            <<"Sectors", "PETROLEO">>, {1, 2, 3, 4}, FALSE)
        EXCEPT !.free = {c \in @ : c[1] = 2} ],
      [ Frame(<<"Costa Rica", "Chile">>,
            <<"VARIACION DE INVENTARIOS", "NO APROVECHADO",
              "CONSUMO PROPIO", "PERDIDAS">>,
            <<"Sectors", "PETROLEO", "COQUE">>, {1}, FALSE)
        EXCEPT !.free = @ \ {<<1, 1, 2>>} ] }

InitFault == InitWith(FramesFault, ValuesLoss)

SpecFault == InitFault /\ [][Next]_vars

-----------------------------------------------------------------------------
(* Vocabulary of the properties                                            *)

\* identity of two fuels on the heap, field by field: (tier, code, region)
SameFuel(a, b) ==
    /\ heap[a].cls = heap[b].cls
    /\ heap[a].code = heap[b].code
    /\ heap[a].region = heap[b].region

\* identity of two technologies, field by field
SameTech(T, t) ==
    /\ T.cls = t.cls
    /\ T.category = t.category
    /\ T.code = t.code
    /\ T.region = t.region

RECURSIVE SumEnergy(_, _)
SumEnergy(h, list) ==
    IF list = <<>> THEN 0
    ELSE h[Head(list)].energy_PJ + SumEnergy(h, Tail(list))

\* the energy the fuels of a list with the identity of fuel a carry together
RECURSIVE EnergyOf(_, _, _)
EnergyOf(h, list, a) ==
    IF list = <<>> THEN 0
    ELSE (IF SameFuel(Head(list), a) THEN h[Head(list)].energy_PJ ELSE 0)
         + EnergyOf(h, Tail(list), a)

\* fill_RES has returned and the first reducer has not run yet
Merged == pc = "sum_prim_loss_tech"

\* the balance cells of the row and column a fuel of a technology comes from
BalanceCells(T, a) ==
    UNION { UNION { { matrix[k].cell[n][j] :
                        j \in { c \in DOMAIN matrix[k].columns :
                                  /\ set_fuel_labels(matrix[k].columns[c]) # <<>>
                                  /\ set_fuel_labels(matrix[k].columns[c])[2]
                                        = heap[a].code } } :
                    n \in { d \in DOMAIN matrix[k].Sectors :
                              set_technology_labels(matrix[k].Sectors[d])
                                 = <<T.category, T.code>> } } :
            k \in { m \in DOMAIN matrix :
                      set_region(matrix[m].country) = T.region } }

\* the skeleton fuel a, of list In or Out of T, has its counterpart in ts
Copied(T, a, t_fuels) ==
    /\ \E b \in Range(t_fuels) : SameFuel(a, b)
    /\ \A b \in Range(t_fuels) :
          SameFuel(a, b) => heap[a].energy_PJ = heap[b].energy_PJ
    /\ 0 \in BalanceCells(T, a) => heap[a].energy_PJ = 0

\* C1: after the merge every fuel slot of every skeleton technology holds the
\* energy of the valued fuel of the same identity inside the valued
\* technology of the same identity, and 0 where the balance cell is 0; when
\* the capacities workbook marks only (SUP, PRO, FUE001, CRU) for CRI and the
\* balance cell is 12.5 PJ, the merge yields exactly one technology
\* (SUP, PRO, CRI) with exactly one output fuel (Primary, CRU, CRI) of 12.5.
C1_MergeCopiesEnergy ==
    Merged =>
      /\ \A i \in DOMAIN _techs :
            /\ \E m \in DOMAIN techs : SameTech(_techs[i], techs[m])
            /\ \A m \in DOMAIN techs :
                  SameTech(_techs[i], techs[m]) =>
                    /\ \A a \in Range(_techs[i].in_fuels) :
                          Copied(_techs[i], a, techs[m].in_fuels)
                    /\ \A a \in Range(_techs[i].out_fuels) :
                          Copied(_techs[i], a, techs[m].out_fuels)
      /\ ( /\ labels = << <<"SUP", "PRO", "FUE001", "CRU", "CRI">> >>
           /\ \E k \in DOMAIN matrix :
                /\ matrix[k].country = "Costa Rica"
                /\ \E n \in DOMAIN matrix[k].Sectors,
                      j \in DOMAIN matrix[k].columns :
                      /\ matrix[k].Sectors[n] = "PRODUCCION"
                      /\ matrix[k].columns[j] = "PETROLEO"
                      /\ matrix[k].cell[n][j] = 125 )
         => /\ Len(_techs) = 1
            /\ SameTech(_techs[1], Technology("PRO", "CRI", "SUP", <<>>, <<>>))
            /\ _techs[1].in_fuels = <<>>
            /\ Len(_techs[1].out_fuels) = 1
            /\ heap[_techs[1].out_fuels[1]] = Fuel("FUE001", "CRU", 125, "CRI")

C1_Witness ==
    /\ Merged
    /\ labels = << <<"SUP", "PRO", "FUE001", "CRU", "CRI">> >>
    /\ Len(_techs) = 1
    /\ heap[_techs[1].out_fuels[1]].energy_PJ = 125

\* the fuel list Technology.__add__ works on for a loss technology
LossFuels(T) == IF T.code \in {"INV", "WAS"} THEN T.out_fuels ELSE T.in_fuels

\* A step of a reducer in which, in every region, the technology of code kept
\* takes into each of its fuels the energy of the fuel of the same identity
\* of the technology of code gone, stays in the list, and gone leaves it.
Absorbed(kept, gone) ==
    /\ \A t \in Range(_techs) :
          \E i \in DOMAIN _techs :
             _techs[i].code = kept /\ _techs[i].region = t.region
    /\ \A i \in DOMAIN _techs :
          _techs[i].code = kept =>
            /\ \E j \in DOMAIN _techs :
                  /\ _techs[j].code = gone
                  /\ _techs[j].region = _techs[i].region
                  /\ \A a \in Range(LossFuels(_techs[i])) :
                        \E b \in Range(LossFuels(_techs[j])) :
                           /\ SameFuel(a, b)
                           /\ heap'[a].energy_PJ
                                 = heap[a].energy_PJ + heap[b].energy_PJ
            /\ \E m \in DOMAIN _techs' : _techs'[m] = _techs[i]
            /\ \A m \in DOMAIN _techs' :
                  ~ ( /\ _techs'[m].code = gone
                      /\ _techs'[m].region = _techs[i].region )

\* sum_prim_loss_tech runs inside build_RES and returns
PrimReduced == pc = "sum_prim_loss_tech" /\ pc' = "sum_sec_loss_tech"

\* sum_sec_loss_tech runs inside build_RES and returns
SecReduced == pc = "sum_sec_loss_tech" /\ pc' = "done"

\* a technology of the list with the code, in region CRI, whose one fuel is
\* (Primary, CRU, CRI) with the energy
HasLoss(h, list, code, energy) ==
    \E T \in Range(list) :
       /\ T.code = code
       /\ T.region = "CRI"
       /\ Len(LossFuels(T)) = 1
       /\ h[LossFuels(T)[1]] = Fuel("FUE001", "CRU", energy, "CRI")

C3_OwnAbsorbsLos ==
    [][SecReduced =>
         /\ Absorbed("OWN", "LOS")
         /\ \A T \in Range(_techs') : T.code # "LOS"
         /\ \A t \in Range(_techs') :
               \E T \in Range(_techs') :
                  T.code = "OWN" /\ T.region = t.region]_vars

C3_Witness ==
    /\ pc = "done"
    /\ calls = 0
    /\ HasLoss(heap, techs, "OWN", 30)
    /\ HasLoss(heap, techs, "LOS", -20)
    /\ HasLoss(heap, _techs, "OWN", 10)
    /\ \A T \in Range(_techs) : T.code # "LOS"

\* C4: for every skeleton technology matched during fill_RES, the sum of the
\* energies of its input fuels after the merge equals the sum of the energies
\* of the input fuels of the matched valued technology before the merge, and
\* the same holds for the output fuels, for every pair of workbooks.
C4_MergeConserves ==
    [][(pc = "fill_RES" /\ pc' = "sum_prim_loss_tech") =>
         \A i \in DOMAIN _techs :
            LET t == techs[TechIndex(techs, _techs[i])] IN
            /\ SumEnergy(heap', _techs'[i].in_fuels)
                  = SumEnergy(heap, t.in_fuels)
            /\ SumEnergy(heap', _techs'[i].out_fuels)
                  = SumEnergy(heap, t.out_fuels)]_vars

\* every region of the list has a technology of each of the two codes
PairsComplete(x, y) ==
    \A t \in Range(_techs) :
       /\ \E T \in Range(_techs) : T.code = x /\ T.region = t.region
       /\ \E T \in Range(_techs) : T.code = y /\ T.region = t.region

\* A step of a reducer after which, for every pair of a region and every fuel
\* identity of either member, the member left in the list carries the sum of
\* the energies the two members carried for that identity.
Conserved(x, y) ==
    \A i, j \in DOMAIN _techs :
       ( /\ _techs[i].code = x
         /\ _techs[j].code = y
         /\ _techs[i].region = _techs[j].region )
       => \E s \in DOMAIN _techs' :
             /\ _techs'[s] \in {_techs[i], _techs[j]}
             /\ \A a \in Range(LossFuels(_techs[i]))
                           \cup Range(LossFuels(_techs[j])) :
                   EnergyOf(heap', LossFuels(_techs'[s]), a)
                      = EnergyOf(heap, LossFuels(_techs[i]), a)
                        + EnergyOf(heap, LossFuels(_techs[j]), a)

\* C5: loss reduction conserves energy: for every region and every fuel
\* identity, the surviving loss technology carries after the reduction the
\* sum of the energies the fuel had in the two paired technologies, also for
\* a fuel present in one member only; nothing of the removed one is dropped.
C5_ReduceConserves ==
    [][ /\ ( pc = "sum_prim_loss_tech" /\ PairsComplete("WAS", "INV") )
           => ( pc' = "sum_sec_loss_tech" /\ Conserved("WAS", "INV") )
        /\ ( pc = "sum_sec_loss_tech" /\ PairsComplete("OWN", "LOS") )
           => ( pc' = "done" /\ Conserved("OWN", "LOS") ) ]_vars

\* C6: applying the reducers to the list build_RES has returned, in which
\* the removed partners are no longer present, changes nothing and raises no
\* error.
C6_ReduceIdempotent ==
    [][(pc = "done" /\ calls' = calls + 1) =>
         /\ pc' = "done"
         /\ err' = NoError
         /\ heap' = heap
         /\ _techs' = _techs]_vars

\* the lists of a skeleton technology T and of a valued technology t between
\* which fill_RES copies, by the category of T
CopiedLists(T, t) ==
    IF T.category \in {"SUP", "LOS001"}
    THEN { <<T.out_fuels, t.out_fuels>> }
    ELSE IF T.category \in {"UPS001", "UPS002", "UPS003"}
    THEN { <<T.in_fuels, t.in_fuels>>, <<T.out_fuels, t.out_fuels>> }
    ELSE { <<T.in_fuels, t.in_fuels>> }

\* the identities, as printed, of the skeleton technologies without a valued
\* technology of equal identity and of the skeleton fuel slots without a
\* valued fuel of equal identity in the corresponding list
Missing ==
    { TechRepr(T) : T \in { S \in Range(_techs) :
                              \A t \in Range(techs) : ~SameTech(S, t) } }
    \cup UNION { IF SameTech(T, t)
                 THEN UNION { { FuelRepr(heap[a]) :
                                  a \in { x \in Range(p[1]) :
                                            \A b \in Range(p[2]) :
                                               ~SameFuel(x, b) } } :
                              p \in CopiedLists(T, t) }
                 ELSE {} : T \in Range(_techs), t \in Range(techs) }

\* C7: when a skeleton technology or one of its fuel slots has no counterpart
\* of equal identity in the valued list, fill_RES ends with an exception
\* that names that identity (the ValueError of list.index); it neither
\* completes with the slot left at 0 nor fails with an IndexError.
C7_LookupFailureRaises ==
    [][pc = "fill_RES" =>
         IF Missing = {}
         THEN pc' = "sum_prim_loss_tech" /\ err' = NoError
         ELSE /\ pc' = "fault"
              /\ err'.type = "ValueError"
              /\ err'.at = "fill_RES"
              /\ err'.repr \in Missing]_vars

C7_Witness ==
    /\ pc = "fault"
    /\ <<"COK", "CRI">> \in Missing
    /\ err = Raise("ValueError", "fill_RES", <<"COK", "CRI">>)

\* the two workbooks have the same sheets, row labels and column labels
SameShape ==
    /\ Len(res) = Len(matrix)
    /\ \A k \in DOMAIN res :
          /\ res[k].country = matrix[k].country
          /\ res[k].Sectors = matrix[k].Sectors
          /\ res[k].columns = matrix[k].columns

\* C8: whenever the two workbooks have the same sheets, rows and columns,
\* every skeleton technology has a valued technology of equal identity and
\* every skeleton fuel slot has a valued fuel of equal identity in the
\* corresponding list, for every technology code and fuel tier marked.
C8_LookupSucceeds ==
    /\ (pc = "fill_RES" /\ SameShape) => Missing = {}
    /\ (pc = "fault" /\ SameShape) => err.at # "fill_RES"

\* the keys of the tables of technologies and of the tables of commodities
RowNames == UNION { { p[1] : p \in categories[k] } : k \in DOMAIN categories }

ColNames == UNION { { p[1] : p \in commodities[k] } : k \in DOMAIN commodities }

\* the elements of a sequence at the positions of keep, in order
RECURSIVE Pick(_, _, _)
Pick(seq, keep, k) ==
    IF k > Len(seq) THEN <<>>
    ELSE (IF k \in keep THEN <<seq[k]>> ELSE <<>>) \o Pick(seq, keep, k + 1)

\* a workbook without the rows and the columns whose label is in no table
\* (the column of the row labels stays)
Clean(book) ==
    [k \in DOMAIN book |->
        LET rows == { n \in DOMAIN book[k].Sectors :
                        book[k].Sectors[n] \in RowNames }
            cols == { j \in DOMAIN book[k].columns :
                        j = 1 \/ book[k].columns[j] \in ColNames }
            kept == Pick(book[k].cell, rows, 1)
        IN [country |-> book[k].country,
            Sectors |-> Pick(book[k].Sectors, rows, 1),
            columns |-> Pick(book[k].columns, cols, 1),
            cell    |-> [n \in DOMAIN kept |-> Pick(kept[n], cols, 1)]]]

\* a workbook without the sheets whose country is not in the region table
KnownSheets(book) ==
    Pick(book, { k \in DOMAIN book : In(region_table, book[k].country) }, 1)

\* the lists and the fuels the two builders leave on a fresh instance for a
\* capacities workbook and a balance workbook
Built(capacities, balance) ==
    LET labs == obj_labels(capacities, <<>>)
        ids  == SetToList({<<ft[1], ft[2], ft[5]>> : ft \in Range(labs)})
        s    == InititalLoop([heap |-> <<>>, techs |-> <<>>, fuels |-> <<>>],
                             ids, labs, 1)
        v    == DataSheets([heap |-> s.heap, techs |-> <<>>, fuels |-> <<>>],
                           balance, 1)
    IN [labels |-> labs, _techs |-> s.techs, _fuels |-> s.fuels,
        techs |-> v.techs, fuels |-> v.fuels,
        heap |-> split_flow(v.heap, v.techs)]

\* the same, as the run has left them
Lists ==
    [labels |-> labels, _techs |-> _techs, _fuels |-> _fuels,
     techs |-> techs, fuels |-> fuels, heap |-> heap]

\* both builders have run
BuiltBoth == pc = "fill_RES"

\* C9: an unrecognized row label or column label, anywhere in either
\* workbook, contributes no technology and no fuel to the skeleton list or
\* to the valued list and raises no error, whatever its cells hold: the
\* builders leave what they leave for the workbooks without those rows and
\* columns.
C9_UnrecognizedLabelSkipped ==
    /\ pc \in {"data_RES", "fill_RES"} => err = NoError
    /\ BuiltBoth => Lists = Built(Clean(res), Clean(matrix))

C9_Witness ==
    /\ BuiltBoth
    /\ err = NoError
    /\ _techs # <<>>
    /\ techs # <<>>
    /\ \E k \in DOMAIN res :
          \E n \in DOMAIN res[k].Sectors, j \in DOMAIN res[k].columns :
             /\ res[k].Sectors[n] = "Unit"
             /\ res[k].columns[j] = "PETROLEO"
             /\ res[k].cell[n][j] # 0
             /\ matrix[k].cell[n][j] # 0
    /\ \E k \in DOMAIN res :
          \E n \in DOMAIN res[k].Sectors, j \in DOMAIN res[k].columns :
             /\ res[k].Sectors[n] = "PRODUCCION"
             /\ res[k].columns[j] = "TOTAL"
             /\ res[k].cell[n][j] # 0
             /\ matrix[k].cell[n][j] # 0

\* C10: a sheet whose country is not in the region table is skipped: it
\* contributes no technology and no fuel to the skeleton list or to the
\* valued list, and no technology or fuel ever has the not-recognized
\* sentinel as its region.
C10_UnknownRegionSkipped ==
    /\ BuiltBoth => Lists = Built(KnownSheets(res), KnownSheets(matrix))
    /\ \A T \in Range(_techs) \cup Range(techs) : T.region # NotRecognized
    /\ \A a \in DOMAIN heap : heap[a].region # NotRecognized

\* a comparison made directly has returned
Returned == pc = "returned"

\* equality of two instances of one kind field by field: class with class,
\* category with category, code with code, region with region
SameIdentity(a, b) ==
    /\ a.cls = b.cls
    /\ a.code = b.code
    /\ a.region = b.region
    /\ "category" \in DOMAIN a => a.category = b.category

\* C11: two Technology records compare equal if and only if their class,
\* category, code and region are pairwise equal, and two Fuel records if and
\* only if their class, code and region are pairwise equal, for all values of
\* the fields, also when code and region coincide or are swapped.
C11_EqualityFieldByField ==
    Returned => (ret.forward <=> SameIdentity(left, right))

\* the instances that differ from a in energy or in fuel lists only
Variants(a) ==
    IF "category" \in DOMAIN a
    THEN { [a EXCEPT !.in_fuels = i, !.out_fuels = o] :
              i \in {<<>>, <<1>>}, o \in {<<>>, <<2>>} }
    ELSE { [a EXCEPT !.energy_PJ = e] : e \in {0, 125} }

\* a == b for two instances of the kind of a
Equal(a, b) ==
    IF "category" \in DOMAIN a THEN Technology_eq(a, b) ELSE Fuel_eq(a, b)

\* C12: for two Technology instances and for two Fuel instances the identity
\* equality is reflexive, symmetric, and independent of the energy values
\* and of the contents of the fuel lists of the instances.
C12_IdentitySymmetry ==
    Returned =>
      /\ left = right => ret.forward
      /\ ret.forward <=> ret.backward
      /\ \A a \in Variants(left), b \in Variants(right) :
            Equal(a, b) <=> ret.forward

C12_Witness ==
    /\ Returned
    /\ "energy_PJ" \in DOMAIN left
    /\ left.energy_PJ # right.energy_PJ
    /\ ret.forward
    /\ ret.backward

\* the fuel lists a technology has are those of its category, and not all
\* of them are empty (a list the class does not have is the empty one here)
ShapeOK(T) ==
    /\ T.category \in {"SUP", "LOS001"} =>
          T.cls = "Primary_Tech" /\ T.in_fuels = <<>>
    /\ T.category \in {"DEM", "LOS002"} =>
          T.cls = "Demand_Tech" /\ T.out_fuels = <<>>
    /\ T.category \in {"UPS001", "UPS002", "UPS003"} =>
          T.cls = "Convertion_Tech"
    /\ T.in_fuels # <<>> \/ T.out_fuels # <<>>

\* C13: in the skeleton list, the valued list and the final list every
\* technology of category SUP or LOS001 has only an output list, every one
\* of category DEM or LOS002 only an input list, every conversion technology
\* both, and no technology has all of its fuel lists empty.
C13_FuelListShape ==
    \A T \in Range(_techs) \cup Range(techs) : ShapeOK(T)

\* the recognized columns of a sheet whose cell in row n is not zero
MarkedColumns(sheet, n) ==
    { j \in DOMAIN sheet.columns :
        /\ sheet.columns[j] \in ColNames
        /\ sheet.cell[n][j] # 0 }

\* the (category, code, region) of the recognized rows of the capacities
\* workbook that have a non-zero cell under a recognized column
PossibleTechs ==
    UNION { { <<set_technology_labels(res[k].Sectors[n])[1],
                set_technology_labels(res[k].Sectors[n])[2],
                set_region(res[k].country)>> :
              n \in { d \in DOMAIN res[k].Sectors :
                        /\ res[k].Sectors[d] \in RowNames
                        /\ MarkedColumns(res[k], d) # {} } } :
            k \in DOMAIN res }

\* initital_RES has just run
Structured == pc = "data_RES"

\* C14: after one run of initital_RES the skeleton list holds exactly one
\* technology for each distinct (category, code, region) with a non-zero
\* indicator cell under a recognized fuel column, none for a row whose
\* recognized cells are all zero, and every skeleton fuel has energy 0.
C14_OneTechnologyPerIdentity ==
    Structured =>
      /\ { <<T.category, T.code, T.region>> : T \in Range(_techs) }
            = PossibleTechs
      /\ Len(_techs) = Cardinality(PossibleTechs)
      /\ \A T \in Range(_techs) :
            \A a \in Range(T.in_fuels) \cup Range(T.out_fuels) :
               heap[a].energy_PJ = 0
      /\ \A a \in Range(_fuels) : heap[a].energy_PJ = 0

C14_Witness ==
    /\ Structured
    /\ Len(_techs) = 1
    /\ \E k \in DOMAIN res :
          \E n, m \in DOMAIN res[k].Sectors :
             /\ res[k].Sectors[n] \in RowNames
             /\ Cardinality(MarkedColumns(res[k], n)) = 2
             /\ res[k].Sectors[m] \in RowNames
             /\ MarkedColumns(res[k], m) = {}

\* the fuel tiers a category admits in its input list and in its output list
AdmittedTiers(category, list) ==
    IF category \in {"SUP", "LOS001"}
    THEN IF list = "out" THEN {"FUE001", "FUE002", "FUE003"} ELSE {}
    ELSE IF category = "UPS001"
    THEN IF list = "in" THEN {"FUE001"} ELSE {"FUE002"}
    ELSE IF category = "UPS002"
    THEN IF list = "in" THEN {"FUE001", "FUE002"} ELSE {"FUE002"}
    ELSE IF category = "UPS003"
    THEN IF list = "in" THEN {"FUE001", "FUE002"} ELSE {"FUE003"}
    ELSE IF list = "in" THEN {"FUE001", "FUE002", "FUE003"} ELSE {}

\* the (tier, code) of the non-zero cells of the own row of T in the sheets
\* of the region of T, of the tiers its category admits in the list
OwnLinks(T, list) ==
    UNION { UNION { { set_fuel_labels(res[k].columns[j]) :
                        j \in { c \in MarkedColumns(res[k], n) :
                                  set_fuel_labels(res[k].columns[c])[1]
                                     \in AdmittedTiers(T.category, list) } } :
                    n \in { d \in DOMAIN res[k].Sectors :
                              set_technology_labels(res[k].Sectors[d])
                                 = <<T.category, T.code>> } } :
            k \in { m \in DOMAIN res :
                      set_region(res[m].country) = T.region } }

\* the slots of a list of T are its own links, one slot each, in its region
OwnSlots(T, slots, list) ==
    /\ \A a \in Range(slots) : heap[a].region = T.region
    /\ { <<heap[a].cls, heap[a].code>> : a \in Range(slots) }
          = { <<FuelClass(id[1]), id[2]>> : id \in OwnLinks(T, list) }
    /\ Len(slots) = Cardinality(OwnLinks(T, list))

\* C15: for every skeleton technology T each fuel of its lists has the
\* region of T and comes from a non-zero indicator cell of the own row of T
\* in the sheet of its own region, each such cell of an admitted tier gives
\* exactly one slot per list, and no slot comes from another row or another
\* sheet, also when a technology code is the same string as a region code.
C15_SlotsAreOwnLinks ==
    Structured =>
      \A T \in Range(_techs) :
         /\ OwnSlots(T, T.in_fuels, "in")
         /\ OwnSlots(T, T.out_fuels, "out")

\* the balance cells of the rows of the identity of t, in the sheets of its
\* region, under the columns of the fuel code
RowCells(t, code) ==
    UNION { UNION { { matrix[k].cell[n][j] :
                        j \in { c \in DOMAIN matrix[k].columns :
                                  /\ matrix[k].columns[c] \in ColNames
                                  /\ set_fuel_labels(matrix[k].columns[c])[2]
                                        = code } } :
                    n \in { d \in DOMAIN matrix[k].Sectors :
                              set_technology_labels(matrix[k].Sectors[d])
                                 = <<t.category, t.code>> } } :
            k \in { m \in DOMAIN matrix :
                      set_region(matrix[m].country) = t.region } }

\* the sign with which a cell is recorded in a list of a technology
Sign(t, list) ==
    IF list = "out" /\ t.code \in {"EXP", "WAS"} THEN -1
    ELSE IF list = "in" /\ t.category \in {"DEM", "LOS002"} THEN -1
    ELSE 1

\* every fuel of the list of t carries, on heap h, its cell with the sign
Signed(h, t, slots, list) ==
    \A a \in Range(slots) :
       /\ RowCells(t, h[a].code) # {}
       /\ \A c \in RowCells(t, h[a].code) :
             h[a].energy_PJ = Sign(t, list) * c

\* C16: for a balance cell of value v the fuel data_RES records, before
\* split_flow, has energy -v as an output of a technology of code EXP or WAS,
\* -v as an input of a technology of category DEM or LOS002, and v in every
\* other case.
C16_ValueSigns ==
    [][pc = "data_RES" =>
         LET v == DataSheets([heap |-> heap, techs |-> techs,
                              fuels |-> fuels], matrix, 1)
         IN /\ techs' = v.techs
            /\ heap' = split_flow(v.heap, v.techs)
            /\ \A t \in Range(v.techs) :
                  /\ Signed(v.heap, t, t.in_fuels, "in")
                  /\ Signed(v.heap, t, t.out_fuels, "out")]_vars

C16_Witness ==
    /\ BuiltBoth
    /\ \E t \in Range(techs) :
          /\ t.code = "TRA"
          /\ \E a \in Range(t.in_fuels) :
                heap[a].energy_PJ = -125 /\ RowCells(t, heap[a].code) = {125}
    /\ \E t \in Range(techs) :
          /\ t.code = "REF"
          /\ \E a \in Range(t.in_fuels) :
                heap[a].energy_PJ = -30 /\ RowCells(t, heap[a].code) = {-30}

\* the energies of the fuels of t have the signs of the convention
SignOK(t) ==
    /\ \A a \in Range(t.out_fuels) :
          IF t.code \in {"EXP", "WAS"} THEN heap[a].energy_PJ <= 0
          ELSE heap[a].energy_PJ >= 0
    /\ \A a \in Range(t.in_fuels) :
          IF t.cls = "Demand_Tech" THEN heap[a].energy_PJ <= 0
          ELSE heap[a].energy_PJ >= 0

\* C17: in the valued list and in the merged list every output fuel of an
\* Export or Waste technology has energy <= 0, every input fuel of a Demand
\* technology has energy <= 0, and every other flow has energy >= 0, for
\* every signed balance workbook.
C17_SignConvention ==
    /\ (BuiltBoth \/ Merged) => \A t \in Range(techs) : SignOK(t)
    /\ Merged => \A T \in Range(_techs) : SignOK(T)

\* the steps of build_RES from one stage to the next, or to the exception
StageSteps ==
    { <<"initital_RES", "data_RES">>, <<"data_RES", "fill_RES">>,
      <<"fill_RES", "sum_prim_loss_tech">>, <<"fill_RES", "fault">>,
      <<"sum_prim_loss_tech", "sum_sec_loss_tech">>,
      <<"sum_prim_loss_tech", "fault">>,
      <<"sum_sec_loss_tech", "done">>, <<"sum_sec_loss_tech", "fault">> }

\* the technologies of the codes are in the list as they were, fuels included
Untouched(codes) ==
    \A T \in Range(_techs) :
       T.code \in codes =>
         /\ T \in Range(_techs')
         /\ \A a \in Range(T.in_fuels) \cup Range(T.out_fuels) :
               heap'[a] = heap[a]

\* C18: within build_RES the stages run in a fixed order: initital_RES and
\* data_RES (split_flow included) both complete before the first merge copy
\* of fill_RES, the merge completes for every skeleton technology before the
\* reducers start, and the Loss-tier-1 reduction completes before the
\* Loss-tier-2 reduction starts.
C18_StageOrder ==
    [][pc # "done" =>
         /\ <<pc, pc'>> \in StageSteps
         /\ pc \in {"initital_RES", "data_RES"} =>
               \A a \in Range(_fuels') : heap'[a].energy_PJ = 0
         /\ pc = "data_RES" =>
               Lists' = Built(res, matrix)
         /\ pc = "fill_RES" =>
               /\ _techs' = _techs
               /\ pc' = "sum_prim_loss_tech" => Missing = {}
         /\ pc = "sum_prim_loss_tech" =>
               /\ Untouched({"OWN", "LOS"})
               /\ pc' = "sum_sec_loss_tech" =>
                     \A T \in Range(_techs') : T.code # "INV"]_vars

C18_Witness ==
    /\ pc = "done"
    /\ calls = 0
    /\ \E T \in Range(_techs) : T.code = "WAS"
    /\ \E T \in Range(_techs) : T.code = "OWN"
    /\ \A T \in Range(_techs) : T.code \notin {"INV", "LOS"}

\* initital_RES, called as a thread, has returned
StructureReturned == ipc = 1 + Len(Identities(labels))

\* data_RES, called as a thread, has returned
ValuesReturned == dpc = Len(matrix) + 1

\* a technology with its fuels in place of their addresses
Deref(h, T) ==
    [cls |-> T.cls, category |-> T.category, code |-> T.code,
     region |-> T.region,
     in_fuels |-> [k \in DOMAIN T.in_fuels |-> h[T.in_fuels[k]]],
     out_fuels |-> [k \in DOMAIN T.out_fuels |-> h[T.out_fuels[k]]]]

\* the skeleton list and the valued list as their contents
Contents(L) ==
    [labels |-> L.labels,
     _techs |-> [k \in DOMAIN L._techs |-> Deref(L.heap, L._techs[k])],
     _fuels |-> [k \in DOMAIN L._fuels |-> L.heap[L._fuels[k]]],
     techs  |-> [k \in DOMAIN L.techs |-> Deref(L.heap, L.techs[k])],
     fuels  |-> [k \in DOMAIN L.fuels |-> L.heap[L.fuels[k]]]]

\* the addresses of the fuels of the technologies of a list
FuelsOf(list) ==
    UNION { Range(T.in_fuels) \cup Range(T.out_fuels) : T \in Range(list) }

\* C19: the two builders are independent: initital_RES writes only labels,
\* _techs and _fuels and leaves techs and fuels as they are, data_RES writes
\* only techs and fuels and leaves labels, _techs and _fuels as they are, and
\* in whatever order or interleaving they run on a fresh instance they leave
\* the same skeleton list and the same valued list.
C19_BuildersIndependent ==
    [][ /\ ipc' # ipc =>
              /\ UNCHANGED <<techs, fuels, dpc>>
              /\ \A a \in FuelsOf(techs) \cup Range(fuels) :
                    heap'[a] = heap[a]
        /\ dpc' # dpc =>
              /\ UNCHANGED <<labels, _techs, _fuels, ipc>>
              /\ \A a \in FuelsOf(_techs) \cup Range(_fuels) :
                    heap'[a] = heap[a]
        /\ (StructureReturned /\ ValuesReturned)' =>
              Contents(Lists)' = Contents(Built(res, matrix)) ]_vars

C19_Witness ==
    /\ StructureReturned
    /\ ValuesReturned
    /\ Len(_techs) = 2
    /\ \E a \in FuelsOf(_techs), c \in FuelsOf(_techs) :
          \E b \in FuelsOf(techs) : a < b /\ b < c
    /\ \E b \in FuelsOf(techs), d \in FuelsOf(techs) :
          \E a \in FuelsOf(_techs) : b < a /\ a < d

\* the fuel at an address keeps its class, code and region
SameSlot(f, g) ==
    /\ f.cls = g.cls
    /\ f.code = g.code
    /\ f.region = g.region

\* C20: the merge is value-only: the step of fill_RES, completed or ended by
\* an exception, leaves the skeleton list with the same technologies in the
\* same order and the same fuel objects in their lists, adds and removes no
\* fuel object, changes nothing of the valued list or of its fuels, and
\* changes of the skeleton fuels only the energy.
C20_MergeValueOnly ==
    [][ pc = "fill_RES" =>
          /\ UNCHANGED <<_techs, _fuels, techs, fuels, labels>>
          /\ DOMAIN heap' = DOMAIN heap
          /\ \A a \in DOMAIN heap : SameSlot(heap'[a], heap[a])
          /\ \A a \in FuelsOf(techs) \cup Range(fuels) : heap'[a] = heap[a]
          /\ \A a \in DOMAIN heap :
                heap'[a] # heap[a] =>
                    a \in FuelsOf(_techs) \cup Range(_fuels) ]_vars

C20_Witness ==
    /\ Merged
    /\ Len(_techs) >= 2
    /\ \E a \in FuelsOf(_techs), b \in FuelsOf(_techs) :
          /\ heap[a].energy_PJ > 0
          /\ heap[b].energy_PJ < 0
    /\ \E c \in FuelsOf(techs) : heap[c].energy_PJ # 0

\* some technology of code x has a fuel whose identity no fuel of the
\* technology of code y of its region has
Unmatched(x, y) ==
    \E T, P \in Range(_techs) :
       /\ T.code = x
       /\ P.code = y
       /\ T.region = P.region
       /\ \E a \in Range(LossFuels(T)) :
             \A b \in Range(LossFuels(P)) : ~SameFuel(a, b)

\* the exception of taking element 0 of an empty selection in a reducer
EmptySelection(at) == Raise("IndexError", at, <<>>)

-----------------------------------------------------------------------------
(* The label resolvers called directly                                     *)

\* labels to resolve: every key of every table, and labels of no table
LabelInputs ==
    { p[1] : p \in region_table } \cup RowNames \cup ColNames
    \cup { "Unit", "TOTAL", "Sectors", "DEMANDA FINAL", "Atlantis",
           "Region", "petroleo", "CRI", "" }

\* a label about to be resolved
InitLabels ==
    /\ left \in LabelInputs
    /\ right = "None"
    /\ ret = "None"
    /\ pc = "resolve"
    /\ heap = <<>>
    /\ res = <<>>
    /\ matrix = <<>>
    /\ techs = <<>>
    /\ fuels = <<>>
    /\ labels = <<>>
    /\ _techs = <<>>
    /\ _fuels = <<>>
    /\ err = NoError
    /\ calls = 0
    /\ hashseed = 0
    /\ ipc = 0
    /\ dpc = 0
    /\ made = NoCalls

\* what a call of a resolver on the label leaves; it is called twice
Resolved(resolver, result) ==
    /\ pc \in {"resolve", "resolved"}
    /\ right' = resolver
    /\ ret' = result
    /\ pc' = IF pc = "resolve" THEN "resolved" ELSE "resolved again"
    /\ UNCHANGED <<res, matrix, heap, techs, fuels, labels, _techs, _fuels,
                   err, calls, hashseed, left, threads, made>>

ResolveRegion == Resolved("set_region", <<set_region(left)>>)

ResolveFuel == Resolved("set_fuel_labels", set_fuel_labels(left))

ResolveTechnology ==
    Resolved("set_technology_labels", set_technology_labels(left))

NextLabels ==
    \/ ResolveRegion
    \/ ResolveFuel
    \/ ResolveTechnology

SpecLabels == InitLabels /\ [][NextLabels]_vars

\* the tier and the category each table of commodities and of sectors is for
Tiers == <<"FUE001", "FUE002", "FUE003">>

Categories == <<"SUP", "UPS001", "UPS002", "UPS003", "DEM", "LOS001", "LOS002">>

\* the pairs (group, code) the tables give a name that is not the key of
\* their heading
Listed2(tables, groups, head, name) ==
    UNION { { <<groups[k], p[2]>> :
                p \in { q \in tables[k] : q[1] = name /\ q[1] # head } } :
            k \in DOMAIN tables }

\* the result of a resolver is the one pair the tables list for the name, or
\* the sentinel when they list none
OnePair(tables, groups, head, name, result) ==
    /\ Cardinality(Listed2(tables, groups, head, name)) <= 1
    /\ IF Listed2(tables, groups, head, name) = {}
       THEN result = <<>>
       ELSE result \in Listed2(tables, groups, head, name)

\* C22: the resolvers are total and deterministic over strings: the name of
\* a region, sector or commodity of the tables gives its code, the same at
\* every call, every other label gives the not-recognized sentinel, no label
\* raises, and no label has two categories or two tiers.
C22_ResolversTotal ==
    pc \in {"resolved", "resolved again"} =>
      /\ err = NoError
      /\ right = "set_region" =>
            /\ Cardinality({ p \in region_table : p[1] = left }) <= 1
            /\ IF \E p \in region_table : p[1] = left
               THEN <<left, ret[1]>> \in region_table
               ELSE ret = <<NotRecognized>>
      /\ right = "set_fuel_labels" =>
            OnePair(commodities, Tiers, "Sector", left, ret)
      /\ right = "set_technology_labels" =>
            OnePair(categories, Categories, "Category", left, ret)

\* the tiers of the recognized columns of the balance sheets of the region
\* of a technology
ColumnTiers(t) ==
    UNION { { set_fuel_labels(matrix[k].columns[j])[1] :
                j \in { c \in DOMAIN matrix[k].columns :
                          matrix[k].columns[c] \in ColNames } } :
            k \in { m \in DOMAIN matrix :
                      set_region(matrix[m].country) = t.region } }

\* the fuels of a list of a valued technology are of the tiers for which the
\* Structure Builder gives a technology of its category a slot in that list
SameTiers(t, slots, list) ==
    { heap[a].cls : a \in Range(slots) }
       = { FuelClass(tier) :
             tier \in AdmittedTiers(t.category, list) \cap ColumnTiers(t) }

\* every fuel of the first list has a fuel of equal identity in the second
Covered(T_fuels, t_fuels) ==
    \A a \in Range(T_fuels) : \E b \in Range(t_fuels) : SameFuel(a, b)

\* C23: the Value Builder categorizes as the Structure Builder does: for
\* every category, code and tier it puts a fuel of the tier in the input
\* (output) list of a technology exactly when the Structure Builder gives a
\* technology of that category an input (output) slot for the tier, so that
\* the fuel lists of a valued technology cover, by identity, the slots of
\* the skeleton technology of the same identity.
C23_SameCategorization ==
    BuiltBoth =>
      /\ \A t \in Range(techs) :
            /\ SameTiers(t, t.in_fuels, "in")
            /\ SameTiers(t, t.out_fuels, "out")
      /\ \A T \in Range(_techs), t \in Range(techs) :
            SameTech(T, t) =>
              /\ Covered(T.in_fuels, t.in_fuels)
              /\ Covered(T.out_fuels, t.out_fuels)

\* the inputs of the UPS002 technologies of a list are <= 0 and their
\* outputs >= 0
SplitSigns(list) ==
    \A T \in Range(list) :
       T.category = "UPS002" =>
         /\ \A a \in Range(T.in_fuels) : heap[a].energy_PJ <= 0
         /\ \A a \in Range(T.out_fuels) : heap[a].energy_PJ >= 0

\* data_RES has returned
Valued == pc \in {"fill_RES", "sum_prim_loss_tech", "sum_sec_loss_tech",
                  "done", "fault"}

\* C24: once split_flow has run every input fuel of every valued UPS002
\* technology has energy <= 0 and every output fuel of it energy >= 0, and
\* so have those of the skeleton UPS002 technologies after the merge; in the
\* step of data_RES split_flow changes no fuel of a technology of another
\* category, and of the fuels of UPS002 only the energy of those of the
\* wrong sign, which it sets to 0.
C24_SplitFlowSigns ==
    [][ /\ Valued' => SplitSigns(techs)'
        /\ pc' \in {"sum_prim_loss_tech", "sum_sec_loss_tech", "done"}
              => SplitSigns(_techs)'
        /\ pc = "data_RES" =>
              LET v == DataSheets([heap |-> heap, techs |-> techs,
                                   fuels |-> fuels], matrix, 1)
              IN /\ techs' = v.techs
                 /\ DOMAIN heap' = DOMAIN v.heap
                 /\ \A t \in Range(v.techs) :
                       t.category # "UPS002" =>
                         \A a \in Range(t.in_fuels) \cup Range(t.out_fuels) :
                            heap'[a] = v.heap[a]
                 /\ \A a \in DOMAIN v.heap :
                       heap'[a] # v.heap[a] =>
                          heap'[a] = [v.heap[a] EXCEPT !.energy_PJ = 0] ]_vars

C24_Witness ==
    /\ Merged
    /\ \E T \in Range(_techs) :
          /\ T.category = "UPS002"
          /\ \E a \in Range(T.in_fuels), b \in Range(T.out_fuels) :
                /\ SameFuel(a, b)
                /\ RowCells(T, heap[a].code) = {125}
                /\ heap[a].energy_PJ = 0
                /\ heap[b].energy_PJ = 125
    /\ \E t \in Range(techs) :
          /\ t.category = "UPS003"
          /\ \E a \in Range(t.in_fuels) : heap[a].energy_PJ > 0
          /\ \E a \in Range(t.out_fuels) : heap[a].energy_PJ < 0

\* the pairs of an input fuel and an output fuel of equal identity of the
\* UPS002 technologies of a list, on heap h
SplitPairs(h, list) ==
    UNION { { p \in Range(T.in_fuels) \X Range(T.out_fuels) :
                SameSlot(h[p[1]], h[p[2]]) } :
            T \in { S \in Range(list) : S.category = "UPS002" } }

\* C25: the input fuel and the output fuel a UPS002 technology has for one
\* secondary commodity are two records, in the skeleton list and in the
\* valued list, although tier, code and region are the same: split_flow
\* sets the energy of one and leaves the other as recorded, and the merge
\* gives the skeleton input the energy of the valued input and the skeleton
\* output that of the valued output.
C25_SplitPairsIndependent ==
    [][ /\ \A p \in SplitPairs(heap', _techs') \cup SplitPairs(heap', techs') :
              p[1] # p[2]
        /\ pc = "data_RES" =>
              LET v == DataSheets([heap |-> heap, techs |-> techs,
                                   fuels |-> fuels], matrix, 1)
              IN \A p \in SplitPairs(v.heap, v.techs) :
                    /\ heap'[p[1]] # v.heap[p[1]] => heap'[p[2]] = v.heap[p[2]]
                    /\ heap'[p[2]] # v.heap[p[2]] => heap'[p[1]] = v.heap[p[1]]
        /\ (pc = "fill_RES" /\ pc' = "sum_prim_loss_tech") =>
              \A T \in Range(_techs), t \in Range(techs) :
                 (T.category = "UPS002" /\ SameTech(T, t)) =>
                    \A P \in SplitPairs(heap, <<T>>),
                       p \in SplitPairs(heap, <<t>>) :
                       SameFuel(P[1], p[1]) =>
                          /\ heap'[P[1]].energy_PJ = heap[p[1]].energy_PJ
                          /\ heap'[P[2]].energy_PJ = heap[p[2]].energy_PJ
                          /\ heap'[p[1]] = heap[p[1]]
                          /\ heap'[p[2]] = heap[p[2]] ]_vars

C25_Witness ==
    /\ Merged
    /\ \E P \in SplitPairs(heap, _techs), p \in SplitPairs(heap, techs) :
          /\ SameFuel(P[1], p[1])
          /\ heap[P[1]].energy_PJ = -30
          /\ heap[P[2]].energy_PJ = 0
          /\ heap[p[1]].energy_PJ = -30
          /\ heap[p[2]].energy_PJ = 0

MinOf(v, w) == IF v <= w THEN v ELSE w

MaxOf(v, w) == IF v >= w THEN v ELSE w

\* the fuels of a list of fuel addresses that have the tier and the code
Having(slots, id) ==
    { a \in Range(slots) :
        heap[a].cls = FuelClass(id[1]) /\ heap[a].code = id[2] }

\* the valued technology t holds the decomposition of the cell of value v
\* under the column resolved to id = (tier, code)
Decomposed(t, id, v) ==
    LET ins  == Having(t.in_fuels, id)
        outs == Having(t.out_fuels, id)
    IN IF id[1] = "FUE002"
       THEN /\ Cardinality(ins) = 1
            /\ Cardinality(outs) = 1
            /\ \A a \in ins, b \in outs :
                  /\ heap[a].energy_PJ = MinOf(v, 0)
                  /\ heap[b].energy_PJ = MaxOf(v, 0)
                  /\ heap[a].energy_PJ + heap[b].energy_PJ = v
                  /\ heap[a].region = t.region
                  /\ heap[b].region = t.region
       ELSE IF id[1] = "FUE001"
       THEN /\ Cardinality(ins) = 1
            /\ outs = {}
            /\ \A a \in ins :
                  heap[a].energy_PJ = MinOf(v, 0) /\ heap[a].region = t.region
       ELSE ins = {} /\ outs = {}

\* the (sheet, row) of the balance workbook a valued technology is made from
RowsOf(t) ==
    { c \in UNION { {k} \X DOMAIN matrix[k].Sectors : k \in DOMAIN matrix } :
        /\ set_region(matrix[c[1]].country) = t.region
        /\ matrix[c[1]].Sectors[c[2]] \in RowNames
        /\ set_technology_labels(matrix[c[1]].Sectors[c[2]])
              = <<t.category, t.code>> }

\* C26: for every UPS002 row and every balance cell of value v under a
\* secondary column the valued list after data_RES holds one input fuel of
\* energy min(v, 0) and one output fuel of energy max(v, 0) of the
\* commodity, which add up to v; under a primary column one input fuel of
\* energy min(v, 0) and no output fuel; under a tertiary column no fuel.
C26_FlowDecomposition ==
    Valued =>
      \A t \in Range(techs) :
         t.category = "UPS002" =>
           /\ RowsOf(t) # {}
           /\ \A c \in RowsOf(t) :
                 \A j \in DOMAIN matrix[c[1]].columns :
                    matrix[c[1]].columns[j] \in ColNames =>
                       Decomposed(t, set_fuel_labels(matrix[c[1]].columns[j]),
                                  matrix[c[1]].cell[c[2]][j])

C26_Witness ==
    /\ BuiltBoth
    /\ \E t \in Range(techs) :
          /\ t.category = "UPS002"
          /\ RowCells(t, "CRU") = {125}
          /\ RowCells(t, "COK") = {-30}
          /\ RowCells(t, "ELC") = {125}
          /\ \A a \in Having(t.in_fuels, <<"FUE001", "CRU">>) :
                heap[a].energy_PJ = 0
          /\ \A a \in Having(t.in_fuels, <<"FUE002", "COK">>) :
                heap[a].energy_PJ = -30
          /\ Len(t.in_fuels) = 2
          /\ Len(t.out_fuels) = 1

\* A step of a reducer for the pair of the survivor of code kept and its
\* partner of code gone: the fuels of the partners are left as they were;
\* when no region lacks a member and some survivor has a slot its partner
\* has no fuel for, the step ends in the ValueError of the lookup; and when
\* it ends so, the exception names such a slot and the survivor and the
\* partner of its region are both still in the list.
LookupFaults(kept, gone) ==
    /\ \A P \in Range(_techs) :
          P.code = gone =>
             \A a \in Range(LossFuels(P)) : heap'[a] = heap[a]
    /\ ( PairsComplete(kept, gone) /\ Unmatched(kept, gone) )
          => ( /\ pc' = "fault"
               /\ err'.type = "ValueError"
               /\ err'.at = "__add__" )
    /\ ( pc' = "fault" /\ err'.type = "ValueError" )
          => \E T, P \in Range(_techs) :
                /\ T.code = kept
                /\ P.code = gone
                /\ T.region = P.region
                /\ \E a \in Range(LossFuels(T)) :
                      /\ FuelRepr(heap[a]) = err'.repr
                      /\ \A b \in Range(LossFuels(P)) : ~SameFuel(a, b)
                /\ T \in Range(_techs')
                /\ P \in Range(_techs')

\* C27: in the loss reduction the fuel list of the surviving technology
\* drives the matching: when the survivor has a fuel slot whose identity the
\* corresponding list of its partner lacks, the addition raises the lookup
\* error instead of passing over the slot, and the partner is then not
\* removed from the list; the addition never changes a fuel of the partner.
C27_SurvivorDrivesMatching ==
    [][ /\ pc = "sum_prim_loss_tech" => LookupFaults("WAS", "INV")
        /\ pc = "sum_sec_loss_tech" => LookupFaults("OWN", "LOS") ]_vars

C27_Witness ==
    /\ pc = "fault"
    /\ err = Raise("ValueError", "__add__", <<"COK", "CRI">>)
    /\ \E T, P \in Range(_techs) :
          /\ T.code = "OWN"
          /\ P.code = "LOS"
          /\ T.region = P.region
          /\ Len(T.in_fuels) = 2
          /\ Len(P.in_fuels) = 1
    /\ \A T \in Range(_techs) : T.code # "INV"

\* the first list is the beginning of the second
Prefix(old, new) ==
    /\ Len(old) <= Len(new)
    /\ SubSeq(new, 1, Len(old)) = old

\* the recognized rows of the balance workbook
ValuedRows ==
    { c \in UNION { {k} \X DOMAIN matrix[k].Sectors : k \in DOMAIN matrix } :
        matrix[c[1]].Sectors[c[2]] \in RowNames }

\* the times initital_RES has run, called directly or by build_RES
StructureRuns == made.initital_RES + made.build_RES

\* two technologies of the skeleton list have the same identity
Duplicated == \E i, j \in DOMAIN _techs : i # j /\ SameTech(_techs[i], _techs[j])

\* C28: the builders accumulate across calls on one instance: every run of
\* initital_RES, called directly or by build_RES, appends the labels of the
\* capacities workbook to labels and new fuels to _fuels and, called
\* directly, one technology per identity to _techs, clearing nothing; every
\* run of data_RES appends one technology per recognized row to techs and
\* new fuels to fuels; so after two runs the skeleton list of a workbook
\* with a marked row holds two technologies of one identity, and it holds
\* one per identity only after the first run on a fresh instance.
C28_BuildersAccumulate ==
    [][ /\ pc' \in {"initital_RES", "build_RES"} =>
              /\ labels' = labels \o obj_labels(res, <<>>)
              /\ Prefix(_fuels, _fuels')
              /\ Prefix(heap, heap') \/ pc' = "build_RES"
        /\ pc' = "initital_RES" =>
              /\ Prefix(_techs, _techs')
              /\ Len(_techs') = Len(_techs) + Cardinality(PossibleTechs)
              /\ UNCHANGED <<techs, fuels>>
        /\ pc' \in {"data_RES", "build_RES"} =>
              /\ Prefix(techs, techs')
              /\ Len(techs') = Len(techs) + Cardinality(ValuedRows)
              /\ Prefix(fuels, fuels')
        /\ pc' = "data_RES" =>
              UNCHANGED <<labels, _techs, _fuels>>
        /\ ( StructureRuns' >= 2 /\ PossibleTechs # {} ) => Duplicated'
        /\ StructureRuns' <= 1 => ~Duplicated' ]_vars

C28_Witness ==
    /\ made = [initital_RES |-> 1, data_RES |-> 0, build_RES |-> 1]
    /\ pc = "build_RES"
    /\ err = NoError
    /\ Duplicated
    /\ Len(techs) = 4
    /\ Len(_techs) = 6
    /\ Len(labels) = 8

\* the fuels of a technology
FuelsIn(T) == Range(T.in_fuels) \cup Range(T.out_fuels)

\* after the step every fuel of the skeleton technology holds the energy of a
\* fuel of its identity of a valued technology of the identity of T
CopiedInto(T) ==
    \A a \in FuelsIn(T) :
       \E t \in Range(techs) :
          /\ SameTech(T, t)
          /\ \E b \in FuelsIn(t) :
                /\ SameFuel(a, b)
                /\ heap'[a].energy_PJ = heap[b].energy_PJ

\* the step leaves the fuels of the technology as they were
NotReached(T) == \A a \in FuelsIn(T) : heap'[a] = heap[a]

\* a valued technology of the identity of T has a fuel of the identity of
\* every fuel of T
Matchable(T) ==
    \E t \in Range(techs) :
       /\ SameTech(T, t)
       /\ \A a \in FuelsIn(T) : \E b \in FuelsIn(t) : SameFuel(a, b)

\* the merge stopped at the first skeleton technology that is not matchable:
\* those before it are merged, those after it are as they were
MergeStopped ==
    \E k \in DOMAIN _techs :
       /\ ~Matchable(_techs[k])
       /\ \A i \in DOMAIN _techs :
             i < k => ( Matchable(_techs[i]) /\ CopiedInto(_techs[i]) )
       /\ \A i \in DOMAIN _techs : i > k => NotReached(_techs[i])

\* the step removes the technology of code gone of the region and leaves in
\* each fuel of the one of code kept the sum of the two energies
RegionReduced(r, kept, gone) ==
    /\ \A T \in Range(_techs') : ~(T.code = gone /\ T.region = r)
    /\ \E T, P \in Range(_techs) :
          /\ T.code = kept /\ T.region = r
          /\ P.code = gone /\ P.region = r
          /\ T \in Range(_techs')
          /\ \A a \in Range(LossFuels(T)) :
                \E b \in Range(LossFuels(P)) :
                   /\ SameFuel(a, b)
                   /\ heap'[a].energy_PJ
                         = heap[a].energy_PJ + heap[b].energy_PJ

\* the step leaves every technology of the region in the list, and the fuels
\* of those of another code than kept as they were
RegionKept(r, kept) ==
    \A T \in Range(_techs) :
       T.region = r =>
         /\ T \in Range(_techs')
         /\ T.code # kept => NotReached(T)

\* the region has the two technologies of the pair and every fuel of the
\* one of code kept has its counterpart in the other
Reducible(r, kept, gone) ==
    \E T, P \in Range(_techs) :
       /\ T.code = kept /\ T.region = r
       /\ P.code = gone /\ P.region = r
       /\ \A a \in Range(LossFuels(T)) :
             \E b \in Range(LossFuels(P)) : SameFuel(a, b)

\* the reducer of the pair stopped at the first region, in the order it goes
\* through them, that is not reducible: the regions before it are reduced,
\* the others are kept, and the list lost the removed technologies only
ReduceStopped(kept, gone) ==
    \E k \in DOMAIN Regions(_techs) :
       /\ ~Reducible(Regions(_techs)[k], kept, gone)
       /\ \A i \in DOMAIN Regions(_techs) :
             IF i < k
             THEN /\ Reducible(Regions(_techs)[i], kept, gone)
                  /\ RegionReduced(Regions(_techs)[i], kept, gone)
             ELSE RegionKept(Regions(_techs)[i], kept)
       /\ Range(_techs') \subseteq Range(_techs)
       /\ Len(_techs') = Len(_techs) - (k - 1)

\* C29: a fault in a later step of build_RES does not roll back what the
\* earlier steps and iterations did: when fill_RES ends in the exception of a
\* lookup, the skeleton technologies before the one it stopped at keep the
\* energies copied into their fuels and the list is otherwise as it was;
\* when the Loss-tier-1 reducer ends in an exception on a region, the regions
\* it had processed stay reduced (INV removed, WAS holding the sums), the
\* OWN and LOS technologies are as they were because the Loss-tier-2
\* reduction is not run, and likewise for a fault of the Loss-tier-2
\* reducer; nothing runs after the fault.
C29_FaultKeepsMutations ==
    [][ /\ pc # "fault"
        /\ ( pc = "fill_RES" /\ pc' = "fault" )
           => ( UNCHANGED _techs /\ MergeStopped )
        /\ ( pc = "sum_prim_loss_tech" /\ pc' = "fault" )
           => ( /\ ReduceStopped("WAS", "INV")
                /\ Untouched({"OWN", "LOS"}) )
        /\ ( pc = "sum_sec_loss_tech" /\ pc' = "fault" )
           => ( /\ ReduceStopped("OWN", "LOS")
                /\ Untouched({"WAS", "INV"}) ) ]_vars

C29_Witness ==
    /\ pc = "fault"
    /\ err = EmptySelection("sum_prim_loss_tech")
    /\ \A T \in Range(_techs) : ~(T.code = "INV" /\ T.region = "CRI")
    /\ \E T \in Range(_techs) :
          /\ T.code = "WAS" /\ T.region = "CRI"
          /\ heap[T.out_fuels[1]].energy_PJ = 0
    /\ \E T \in Range(_techs) : T.code = "INV" /\ T.region = "CHL"
    /\ \A T \in Range(_techs) : ~(T.code = "WAS" /\ T.region = "CHL")
    /\ \E T \in Range(_techs) :
          /\ T.code = "LOS" /\ T.region = "CRI"
          /\ heap[T.in_fuels[1]].energy_PJ = -10

\* the two operands are of one class and their codes are the two of a pair
\* of loss codes
LossPair ==
    /\ left.cls = right.cls
    /\ {left.code, right.code} \in {{"INV", "WAS"}, {"OWN", "LOS"}}

\* C30: Technology.__add__ returns None, raises nothing and changes no fuel
\* when the operands are of different classes or their pair of codes is
\* neither {INV, WAS} nor {OWN, LOS}, two technologies of one code included;
\* only for operands of one class with one of those two pairs does it return
\* the left operand or change a fuel, and the fuels it changes are fuels of
\* the left operand.
C30_AddOnlyLossPairs ==
    [][ pc = "__add__" =>
          /\ ~LossPair => ( /\ pc' = "returned"
                            /\ ret' = "None"
                            /\ err' = NoError
                            /\ heap' = heap )
          /\ ( ret' = "self" \/ heap' # heap ) => LossPair
          /\ ret' = "self" => pc' = "returned"
          /\ \A a \in DOMAIN heap :
                heap'[a] # heap[a] =>
                   a \in Range(left.in_fuels) \cup Range(left.out_fuels) ]_vars

C30_Witness ==
    /\ pc = "returned"
    /\ ret = "None"
    /\ left.cls = "Primary_Tech"
    /\ right.cls = "Primary_Tech"
    /\ left.code = "INV"
    /\ right.code = "INV"
    /\ left.out_fuels = <<1, 2>>
    /\ right.out_fuels = <<3, 4>>
    /\ heap[1].energy_PJ = 20
    /\ heap[2].energy_PJ = -30

====
